---- MODULE Spec2Model ----
(***************************************************************************)
(* A model of the presence tracker, the friend graph manager, the invite   *)
(* coordinator and the turn-based word game of the social web client.      *)
(* The backend (auth, document store, realtime store) is a set of shared   *)
(* documents; the awaits of the clients' handlers are step boundaries, so  *)
(* that the handlers of different clients (browser tabs) interleave. The   *)
(* page load of the Friends page, the coordinator's scan and the cleanup   *)
(* of a closed game run as one step each.                                  *)
(***************************************************************************)
EXTENDS Integers, Sequences, FiniteSets, TLC

VARIABLES
    \* the word game
    game,        \* the document wordleGames/{gameId}
    gameState,   \* per client: the React state gameState (last snapshot seen)
    showGameOver, \* per client: the React state showGameOver
    initPc,      \* per client: position in initializeGame
    message,     \* per client: the React state message
    nSubmits,    \* number of guess writes that reached the store
    persisted,   \* history: the secret words ever written by setDoc
    ev,          \* history: the handler that ran in the last step
    \* presence of one identity
    status,      \* the realtime-store node status/{uid}
    currentUser, \* per tab: whether the tab is signed in (React state currentUser)
    authPc,      \* per tab: position in the auth-state handler / logout
    updPc,       \* per tab: position in updateUserStatus
    snapAuth,    \* per tab: what the auth-state handler read from the node
    snapUpd,     \* per tab: what updateUserStatus read from the node
    updArg,      \* per tab: the isShitting argument of the call in flight
    hook,        \* per tab: whether the server holds its onDisconnect removal
    live,        \* history, per tab: it wrote its session key and has neither
                 \* logged out nor disconnected since
    \* the friend graph
    users,            \* the documents users/{uid}: their friends field
    friendRequests,   \* the collection friendRequests, in creation order
    friendsState,     \* per user: the React state friends of the Friends page
    receivedRequests, \* per user: the React state receivedRequests (ids)
    sentRequests,     \* per user: the React state sentRequests (ids)
    fop,              \* per user: the friend handler in flight and its locals
    outcome,          \* per user: what the last friend handler reported, with
                      \* the history of the writes it attempted and committed
    everFailed,       \* history: a friend handler reported something else than
                      \* full success
    \* the invite coordinator
    gameInvites,      \* the collection gameInvites, in creation order
    wordleGames,      \* per game id: the status of wordleGames/{gameId}
    nextGameId,       \* the next game id handleAccept generates
    activeGameId,     \* per user: the React state activeGameId (0: null)
    activeInviteId,   \* per user: the React state activeInviteId (0: null)
    iev,              \* history: the coordinator handler that ran last
    statusIsShitting, \* per user: the flag status/{uid}/isShitting
    onlineUsers,      \* per user: isShitting of the other user as listed in
                      \* the React state onlineUsers
    userData,         \* per user: isShitting of the context's userData
    \* the display of one guess
    fbWord,           \* the secret word of the game state rendered
    fbGuess,          \* the guess rendered
    bgColor,          \* per letter of the guess: the class of its tile, <<>>
                      \* before renderGuessResult ran
    \* the recommendation ranking
    allCurrentUserFriends, \* argument of calculateRecommendations
    friendsOfFriends,      \* argument: the Map, as its entries in insertion
                           \* order (the order the friend documents came in)
    recommendationsArray,  \* what calculateRecommendations returned
    recPc,                 \* "input" before the call, "done" after it
    \* the recommendation cache
    userFriends,           \* the friends array of the requester's profile
    recommendationsCache,  \* the localStorage item friendRecommendationsCache
    clock,                 \* what Date.now() returns in this browser
    recServed,             \* history: the last call of the service
    \* the timeline cache
    timelineFriends,       \* the React state friends of the Tweets page
    timelineCache,         \* the localStorage item timeline_cache
    tweetStore,            \* the number of tweets posted; tweet n has id n
                           \* and its activity the time stamp n
    lastAutoRefresh,       \* the React state lastAutoRefresh
    refreshTimer,          \* the background reload of loadTweets is pending
    tlEv,                  \* history: the last call of loadTweets
    \* the callbacks of one tab
    authUser,              \* whether the tab is signed in (auth state)
    statusListener,        \* whether the onValue listener on status/{uid} is attached
    providerUserData,      \* whether the React state userData is set (non-null)
    mountedViews,          \* the views mounted in the tab
    intervalId,            \* whether the interval of fetchPendingInvites runs
    pendingTimers,         \* per view: the setTimeout callbacks not yet run
    cbEv,                  \* history: the last callback that ran
    \* the friends-online list of one viewer
    friendNode,            \* the presence node status/{uid} of a friend
    listNow,               \* what Date.now() returns on the viewer's page
    friendsList,           \* the React state friends: whether it holds the friend
    onlineUsersList,       \* whether the friend is in the list the listener built
    \* one browser used by several accounts
    browserUser,           \* the account signed in in the browser
    profileFriends,        \* per account: the friends array of its profile
    browserCache,          \* the localStorage item friendRecommendationsCache
    browserNow,            \* what Date.now() returns in the browser
    browserServed,         \* history: the last call of getFriendRecommendations
    \* the likes of one tweet
    tweet,                 \* the document tweets/{id}: likedBy and likes
    tweetSnap,             \* per user: the document its toggleLikeTweet has read
    likeEv                 \* history: the last step of a toggleLikeTweet

gameVars == <<game, gameState, showGameOver, initPc, message, nSubmits, persisted, ev>>

presenceVars == <<status, currentUser, authPc, updPc, snapAuth, snapUpd, updArg, hook, live>>

friendVars ==
    <<users, friendRequests, friendsState, receivedRequests, sentRequests, fop, outcome,
      everFailed>>

availVars == <<statusIsShitting, onlineUsers, userData>>

inviteVars ==
    <<gameInvites, wordleGames, nextGameId, activeGameId, activeInviteId, iev, availVars>>

feedbackVars == <<fbWord, fbGuess, bgColor>>

recVars == <<allCurrentUserFriends, friendsOfFriends, recommendationsArray, recPc>>

\* the state of the services (services/friendService.ts)
recCacheVars == <<userFriends, recommendationsCache, clock, recServed>>

timelineVars ==
    <<timelineFriends, timelineCache, tweetStore, lastAutoRefresh, refreshTimer, tlEv>>

lifecycleVars == <<authUser, statusListener, providerUserData, mountedViews,
                   intervalId, pendingTimers, cbEv>>

onlineListVars == <<friendNode, listNow, friendsList, onlineUsersList>>

\* the state of single pages
browserVars == <<browserUser, profileFriends, browserCache, browserNow, browserServed>>

likeVars == <<tweet, tweetSnap, likeEv>>

pageVars == <<onlineListVars, browserVars, likeVars>>

serviceVars == <<recVars, recCacheVars, timelineVars, lifecycleVars, pageVars>>

vars == <<gameVars, presenceVars, friendVars, inviteVars, feedbackVars, serviceVars>>

\* what the handlers of one part of the client leave alone
nonGameVars == <<presenceVars, friendVars, inviteVars, feedbackVars, serviceVars>>

nonPresenceVars == <<gameVars, friendVars, inviteVars, feedbackVars, serviceVars>>

nonFriendVars == <<gameVars, presenceVars, inviteVars, feedbackVars, serviceVars>>

nonInviteVars == <<gameVars, presenceVars, friendVars, feedbackVars, serviceVars>>

nonFeedbackVars == <<gameVars, presenceVars, friendVars, inviteVars, serviceVars>>

clientVars == <<gameVars, presenceVars, friendVars, inviteVars, feedbackVars>>

nonRecVars == <<clientVars, recCacheVars, timelineVars, lifecycleVars, pageVars>>

nonRecCacheVars == <<clientVars, recVars, timelineVars, lifecycleVars, pageVars>>

nonTimelineVars == <<clientVars, recVars, userFriends, recommendationsCache, recServed,
                     lifecycleVars, pageVars>>

nonLifecycleVars == <<clientVars, recVars, recCacheVars, timelineVars, pageVars>>

nonPageVars == <<clientVars, recVars, recCacheVars, timelineVars, lifecycleVars>>

nonOnlineListVars == <<nonPageVars, browserVars, likeVars>>

nonBrowserVars == <<nonPageVars, onlineListVars, likeVars>>

nonLikeVars == <<nonPageVars, onlineListVars, browserVars>>

\* ------------------------------------------------------------------------
\* Bounds of the model
\* ------------------------------------------------------------------------

\* accepted guess writes per game run
MaxSubmits == 3

\* friend requests ever created
MaxRequests == 2

\* game invites ever created
MaxInvites == 2
MaxTime == 2

\* user ids the recommendation inputs are drawn from
MaxUid == 5

\* length of a friend list in the recommendation inputs
MaxFriends == 2

\* how far the clock runs, in units of the freshness window of a cache
MaxClock == 3

\* tweets ever posted
MaxTweets == 2

\* setTimeout callbacks of one view pending at a time
MaxTimers == 2

\* ------------------------------------------------------------------------
\* The word game (components/WordleGame.tsx)
\* ------------------------------------------------------------------------

\* the two clients of one game; each passes the other as opponentId
Clients == {"u1", "u2"}

Opponent(c) == IF c = "u1" THEN "u2" ELSE "u1"

FLUSH == <<"F", "L", "U", "S", "H">>

WIPES == <<"W", "I", "P", "E", "S">>

\* two entries of the word list the secret is drawn from
WORDS == {FLUSH, WIPES}

\* what a client can have typed when the handler runs: handleKeyPress
\* stops at five letters, so a guess has at most five
GuessInputs == WORDS \cup { <<"F", "L", "U">> }

\* no document / gameState === null
NoDoc ==
    [exists |-> FALSE, word |-> <<>>, currentPlayer |-> "none",
     player1 |-> "none", player2 |-> "none",
     player1Guesses |-> <<>>, player2Guesses |-> <<>>,
     status |-> "none", winner |-> "none"]

\* op: the handler, who: the client that ran it, res: how it ended,
\* arg: the guess it was given, fresh: whether the caller's gameState was
\* the stored document when it ran
Ev(op, who, res, arg, fresh) ==
    [op |-> op, who |-> who, res |-> res, arg |-> arg, fresh |-> fresh]

NoEv == Ev("none", "none", "none", <<>>, FALSE)

InitGame ==
    /\ game = NoDoc
    /\ gameState = [c \in Clients |-> NoDoc]
    /\ showGameOver = [c \in Clients |-> FALSE]
    /\ initPc = [c \in Clients |-> "start"]
    /\ message = [c \in Clients |-> ""]
    /\ nSubmits = 0
    /\ persisted = {}
    /\ ev = NoEv

\* initializeGame up to the await of getDoc: the existence check
InitializeGameRead(c) ==
    /\ initPc[c] = "start"
    /\ initPc' = [initPc EXCEPT ![c] = IF game.exists THEN "done" ELSE "create"]
    /\ ev' = Ev("initRead", c, IF game.exists THEN "exists" ELSE "absent", <<>>, FALSE)
    /\ UNCHANGED <<game, gameState, showGameOver, message, nSubmits, persisted>>
    /\ UNCHANGED nonGameVars

\* a listener that never opens the game-over screen
showGameOverKept(show, gs) == show

\* lines 116-118: the listener opens the game-over screen when the state it
\* received is completed; nothing closes it again
showGameOverAfter(show, gs) == show \/ (gs.exists /\ gs.status = "completed")

\* a game created with nobody to move
newGameStateNobodyToMove(c, w) ==
    [exists |-> TRUE, word |-> w, currentPlayer |-> "none",
     player1 |-> c, player2 |-> Opponent(c),
     player1Guesses |-> <<>>, player2Guesses |-> <<>>,
     status |-> "active", winner |-> "none"]

\* lines 144-154: the document initializeGame writes
newGameState(c, w) ==
    [exists |-> TRUE, word |-> w, currentPlayer |-> c,
     player1 |-> c, player2 |-> Opponent(c),
     player1Guesses |-> <<>>, player2Guesses |-> <<>>,
     status |-> "active", winner |-> "none"]

\* initializeGame after the existence check found nothing: setDoc, which
\* replaces whatever document is there by then (the rules allow a player of
\* the stored game to write it). The listener of the writing client sees
\* its own write at once.
InitializeGameWrite(c) ==
    /\ initPc[c] = "create"
    /\ \E w \in WORDS, ok \in BOOLEAN :
        IF ok
        THEN /\ game' = newGameState(c, w)
             /\ gameState' = [gameState EXCEPT ![c] = newGameState(c, w)]
             /\ showGameOver' = [showGameOver EXCEPT
                    ![c] = showGameOverAfter(@, newGameState(c, w))]
             /\ persisted' = persisted \cup {w}
             /\ message' = message
             /\ ev' = Ev("initWrite", c, "written", <<>>, FALSE)
        ELSE /\ message' = [message EXCEPT ![c] = "Error creating the game. Please try again."]
             /\ ev' = Ev("initWrite", c, "error", <<>>, FALSE)
             /\ UNCHANGED <<game, gameState, showGameOver, persisted>>
    /\ initPc' = [initPc EXCEPT ![c] = "done"]
    /\ UNCHANGED nSubmits
    /\ UNCHANGED nonGameVars

\* the onSnapshot listener: a snapshot of an existing document becomes the
\* client's gameState; a snapshot of a missing one leaves it as it is
OnSnapshot(c) ==
    /\ game.exists
    /\ gameState[c] # game
    /\ gameState' = [gameState EXCEPT ![c] = game]
    /\ showGameOver' = [showGameOver EXCEPT ![c] = showGameOverAfter(@, game)]
    /\ ev' = Ev("snapshot", c, "delivered", <<>>, FALSE)
    /\ UNCHANGED <<game, initPc, message, nSubmits, persisted>>
    /\ UNCHANGED nonGameVars

\* a handler without the turn check
NotYourTurnSkipped(gs, c) == FALSE

\* line 181: the turn check, on the client's own gameState
NotYourTurn(gs, c) == gs.currentPlayer # c

\* line 187: the length check
InvalidLength(g) == Len(g) # 5

\* a handler that forgets to hand the turn over
SubmitUpdatesKeepsTurn(gs, c, g) ==
    LET isPlayer1 == c = gs.player1
    IN  [field |-> IF isPlayer1 THEN "player1Guesses" ELSE "player2Guesses",
         guesses |-> Append(IF isPlayer1 THEN gs.player1Guesses ELSE gs.player2Guesses, g),
         currentPlayer |-> c,
         isCorrect |-> g = gs.word]

\* lines 196-215: the fields updateDoc is given, computed from the client's
\* gameState gs for caller c and guess g
SubmitUpdates(gs, c, g) ==
    LET isPlayer1 == c = gs.player1
    IN  [field |-> IF isPlayer1 THEN "player1Guesses" ELSE "player2Guesses",
         guesses |-> Append(IF isPlayer1 THEN gs.player1Guesses ELSE gs.player2Guesses, g),
         currentPlayer |-> IF isPlayer1 THEN gs.player2 ELSE gs.player1,
         isCorrect |-> g = gs.word]

\* updateDoc(gameRef, updates): the named fields replace the document's,
\* the others stay; status and winner are among them only for a correct guess
ApplyUpdates(d, u, c) ==
    LET d1 == IF u.field = "player1Guesses"
              THEN [d EXCEPT !.player1Guesses = u.guesses]
              ELSE [d EXCEPT !.player2Guesses = u.guesses]
        d2 == [d1 EXCEPT !.currentPlayer = u.currentPlayer]
    IN  IF u.isCorrect
        THEN [d2 EXCEPT !.status = "completed", !.winner = c]
        ELSE d2

\* handleSubmitGuess, whole: the early returns, then the write. The write
\* can be refused by the backend (the catch branch). The writing client's
\* listener sees its own pending write at once.
HandleSubmitGuess(c, g) ==
    LET gs == gameState[c]
    IN  /\ UNCHANGED nonGameVars
        /\ IF ~gs.exists
           THEN /\ ev' = Ev("submit", c, "ignored", g, gs = game)
                /\ UNCHANGED <<game, gameState, showGameOver, initPc, message, nSubmits, persisted>>
           ELSE IF NotYourTurn(gs, c)
           THEN /\ message' = [message EXCEPT ![c] = "It's not your turn!"]
                /\ ev' = Ev("submit", c, "NotYourTurn", g, gs = game)
                /\ UNCHANGED <<game, gameState, showGameOver, initPc, nSubmits, persisted>>
           ELSE IF InvalidLength(g)
           THEN /\ message' = [message EXCEPT ![c] = "Your guess must be 5 letters!"]
                /\ ev' = Ev("submit", c, "InvalidLength", g, gs = game)
                /\ UNCHANGED <<game, gameState, showGameOver, initPc, nSubmits, persisted>>
           ELSE /\ nSubmits < MaxSubmits
                /\ \E ok \in BOOLEAN :
                    LET u == SubmitUpdates(gs, c, g)
                    IN  IF ok /\ game.exists
                        THEN /\ game' = ApplyUpdates(game, u, c)
                             /\ gameState' = [gameState EXCEPT ![c] = ApplyUpdates(gs, u, c)]
                             /\ showGameOver' = [showGameOver EXCEPT
                                    ![c] = showGameOverAfter(@, ApplyUpdates(gs, u, c))]
                             /\ nSubmits' = nSubmits + 1
                             /\ message' = [message EXCEPT ![c] =
                                    IF u.isCorrect THEN "You won!" ELSE "Guess submitted!"]
                             /\ ev' = Ev("submit", c, "accepted", g, gs = game)
                        ELSE /\ message' = [message EXCEPT ![c] =
                                    "Error submitting your guess. Please try again."]
                             /\ ev' = Ev("submit", c, "error", g, gs = game)
                             /\ UNCHANGED <<game, gameState, showGameOver, nSubmits>>
                /\ UNCHANGED <<initPc, persisted>>

\* lines 356-378: the game-over screen, the only place of the view that
\* prints gameState.word
WordShown(c) ==
    /\ showGameOver[c]
    /\ gameState[c].exists
    /\ gameState[c].status = "completed"

\* lines 391-455: the board, drawn otherwise: the status line and the two
\* lists of guesses, each letter coloured by renderGuessResult
BoardShown(c) == gameState[c].exists /\ ~WordShown(c)

\* line 457: the keyboard (and its Enter button) is rendered only then
KeyboardShown(c) ==
    /\ gameState[c].exists
    /\ gameState[c].status # "completed"
    /\ gameState[c].currentPlayer = c

\* line 271: the Enter button is disabled otherwise
EnterEnabled(c, g) ==
    /\ Len(g) = 5
    /\ gameState[c].currentPlayer = c

\* a click on Enter: the only way the page calls handleSubmitGuess
PressEnter(c, g) ==
    /\ KeyboardShown(c)
    /\ EnterEnabled(c, g)
    /\ HandleSubmitGuess(c, g)

\* ------------------------------------------------------------------------
\* Presence (contexts/AuthContext.tsx): the tabs of one identity
\* ------------------------------------------------------------------------

\* each tab draws its own sessionId when the page loads; the tab's name
\* stands for it
Tabs == {"t1", "t2"}

\* what Date.now() may return: the clocks of the tabs are not synchronised
Times == 1..MaxTime

\* the node status/{uid}; sessions is the set of keys under sessions/
NoStatus ==
    [exists |-> FALSE, isOnline |-> FALSE, isShitting |-> FALSE, lastActive |-> 0,
     sessions |-> {}]

\* what a handler keeps of the node it got: both handlers replace
\* lastActive by Date.now() in what they write, so the value read is dropped
Snapshot(st) == [st EXCEPT !.lastActive = 0]

InitPresence ==
    /\ status = NoStatus
    /\ currentUser = [t \in Tabs |-> FALSE]
    /\ authPc = [t \in Tabs |-> "out"]
    /\ updPc = [t \in Tabs |-> "idle"]
    /\ snapAuth = [t \in Tabs |-> NoStatus]
    /\ snapUpd = [t \in Tabs |-> NoStatus]
    /\ updArg = [t \in Tabs |-> FALSE]
    /\ hook = [t \in Tabs |-> FALSE]
    /\ live = [t \in Tabs |-> FALSE]

\* lines 896-897: online is derived from the session map
hasActiveSessions(st) == Cardinality(st.sessions) > 0

\* the realtime-store rules: only the signed-in owner writes under the node
MayWrite(t) == currentUser[t]

\* login: the auth-state handler starts with the user; setCurrentUser(user)
SignIn(t) ==
    /\ authPc[t] = "out"
    /\ currentUser' = [currentUser EXCEPT ![t] = TRUE]
    /\ authPc' = [authPc EXCEPT ![t] = "get"]
    /\ UNCHANGED <<status, updPc, snapAuth, snapUpd, updArg, hook, live>>
    /\ UNCHANGED nonPresenceVars

\* auth-state handler, line 854: get(statusRef); a failure goes to the
\* catch of line 922 and the handler ends without a session
AuthGet(t) ==
    /\ authPc[t] = "get"
    /\ \E ok \in BOOLEAN :
        IF ok
        THEN /\ snapAuth' = [snapAuth EXCEPT ![t] = Snapshot(status)]
             /\ authPc' = [authPc EXCEPT ![t] = "set"]
        ELSE /\ authPc' = [authPc EXCEPT ![t] = "in"]
             /\ UNCHANGED snapAuth
    /\ UNCHANGED <<status, currentUser, updPc, snapUpd, updArg, hook, live>>
    /\ UNCHANGED nonPresenceVars

\* lines 855-871: what the handler writes, from what it read
AuthStatus(existing, t, now) ==
    [exists |-> TRUE, isOnline |-> TRUE, isShitting |-> existing.isShitting,
     lastActive |-> now, sessions |-> existing.sessions \cup {t}]

\* auth-state handler, line 863: set(statusRef, ...) of the whole node
AuthSet(t) ==
    /\ authPc[t] = "set"
    /\ \E ok \in BOOLEAN :
        IF ok /\ MayWrite(t)
        THEN /\ \E now \in Times : status' = AuthStatus(snapAuth[t], t, now)
             /\ live' = [live EXCEPT ![t] = TRUE]
             /\ authPc' = [authPc EXCEPT ![t] = "hook"]
        ELSE /\ authPc' = [authPc EXCEPT ![t] = "in"]
             /\ UNCHANGED <<status, live>>
    /\ snapAuth' = [snapAuth EXCEPT ![t] = NoStatus]
    /\ UNCHANGED <<currentUser, updPc, snapUpd, updArg, hook>>
    /\ UNCHANGED nonPresenceVars

\* auth-state handler, line 874: the onDisconnect removal of this tab's
\* session key reaches the server
AuthHook(t) ==
    /\ authPc[t] = "hook"
    /\ hook' = [hook EXCEPT ![t] = TRUE]
    /\ authPc' = [authPc EXCEPT ![t] = "in"]
    /\ UNCHANGED <<status, currentUser, updPc, snapAuth, snapUpd, updArg, live>>
    /\ UNCHANGED nonPresenceVars

\* updateUserStatus(isShitting), lines 780-786: get(statusRef)
UpdateGet(t, isShitting) ==
    /\ currentUser[t]
    /\ updPc[t] = "idle"
    /\ \E ok \in BOOLEAN :
        IF ok
        THEN /\ snapUpd' = [snapUpd EXCEPT ![t] = Snapshot(status)]
             /\ updArg' = [updArg EXCEPT ![t] = isShitting]
             /\ updPc' = [updPc EXCEPT ![t] = "set"]
        ELSE UNCHANGED <<snapUpd, updArg, updPc>>
    /\ UNCHANGED <<status, currentUser, authPc, snapAuth, hook, live>>
    /\ UNCHANGED nonPresenceVars

\* lines 788-806: what updateUserStatus writes, from what it read (a
\* missing node reads as no sessions)
UpdateStatus(snapshot, t, isShitting, now) ==
    [exists |-> TRUE, isOnline |-> TRUE, isShitting |-> isShitting,
     lastActive |-> now, sessions |-> snapshot.sessions \cup {t}]

\* updateUserStatus, lines 793 / 801: set(statusRef, ...) of the whole node
UpdateSet(t) ==
    /\ updPc[t] = "set"
    /\ \E ok \in BOOLEAN :
        IF ok /\ MayWrite(t)
        THEN /\ \E now \in Times : status' = UpdateStatus(snapUpd[t], t, updArg[t], now)
             /\ live' = [live EXCEPT ![t] = TRUE]
             /\ updPc' = [updPc EXCEPT ![t] = "hook"]
        ELSE /\ updPc' = [updPc EXCEPT ![t] = "idle"]
             /\ UNCHANGED <<status, live>>
    /\ snapUpd' = [snapUpd EXCEPT ![t] = NoStatus]
    /\ updArg' = [updArg EXCEPT ![t] = FALSE]
    /\ UNCHANGED <<currentUser, authPc, snapAuth, hook>>
    /\ UNCHANGED nonPresenceVars

\* updateUserStatus, line 810: onDisconnect registration
UpdateHook(t) ==
    /\ updPc[t] = "hook"
    /\ hook' = [hook EXCEPT ![t] = TRUE]
    /\ updPc' = [updPc EXCEPT ![t] = "idle"]
    /\ UNCHANGED <<status, currentUser, authPc, snapAuth, snapUpd, updArg, live>>
    /\ UNCHANGED nonPresenceVars

\* a removal of the whole node status/{uid}
RemoveNode(st, t) == NoStatus

\* set(ref(status/uid/sessions/sessionId), null): only that key goes
RemoveSession(st, t) == [st EXCEPT !.sessions = @ \ {t}]

\* logout, lines 766-769: the tab removes its own session key; a failure
\* throws before signOut
LogoutRemove(t) ==
    /\ currentUser[t]
    /\ authPc[t] = "in"
    /\ \E ok \in BOOLEAN :
        IF ok
        THEN /\ status' = RemoveSession(status, t)
             /\ live' = [live EXCEPT ![t] = FALSE]
             /\ authPc' = [authPc EXCEPT ![t] = "signOut"]
        ELSE UNCHANGED <<status, live, authPc>>
    /\ UNCHANGED <<currentUser, updPc, snapAuth, snapUpd, updArg, hook>>
    /\ UNCHANGED nonPresenceVars

\* logout, line 771: signOut; the auth-state handler runs with no user
SignOut(t) ==
    /\ authPc[t] = "signOut"
    /\ currentUser' = [currentUser EXCEPT ![t] = FALSE]
    /\ authPc' = [authPc EXCEPT ![t] = "out"]
    /\ UNCHANGED <<status, updPc, snapAuth, snapUpd, updArg, hook, live>>
    /\ UNCHANGED nonPresenceVars

\* the tab is closed or loses its connection: the server runs the removal
\* the tab registered, if it did; nothing of the tab runs afterwards
Disconnect(t) ==
    /\ authPc[t] # "closed"
    /\ status' = IF hook[t] THEN RemoveSession(status, t) ELSE status
    /\ authPc' = [authPc EXCEPT ![t] = "closed"]
    /\ updPc' = [updPc EXCEPT ![t] = "closed"]
    /\ currentUser' = [currentUser EXCEPT ![t] = FALSE]
    /\ live' = [live EXCEPT ![t] = FALSE]
    /\ hook' = [hook EXCEPT ![t] = FALSE]
    /\ snapAuth' = [snapAuth EXCEPT ![t] = NoStatus]
    /\ snapUpd' = [snapUpd EXCEPT ![t] = NoStatus]
    /\ updArg' = [updArg EXCEPT ![t] = FALSE]
    /\ UNCHANGED nonPresenceVars

NextPresence ==
    \/ \E t \in Tabs : SignIn(t)
    \/ \E t \in Tabs : AuthGet(t)
    \/ \E t \in Tabs : AuthSet(t)
    \/ \E t \in Tabs : AuthHook(t)
    \/ \E t \in Tabs, b \in BOOLEAN : UpdateGet(t, b)
    \/ \E t \in Tabs : UpdateSet(t)
    \/ \E t \in Tabs : UpdateHook(t)
    \/ \E t \in Tabs : LogoutRemove(t)
    \/ \E t \in Tabs : SignOut(t)
    \/ \E t \in Tabs : Disconnect(t)

\* ------------------------------------------------------------------------
\* The friend graph (pages/Friends.tsx and its hardened revision)
\* ------------------------------------------------------------------------

\* the two revisions of the Friends page a user may be running
Versions == {"pages", "hardened"}

RequestIds == 1..MaxRequests

\* no friend handler in flight; read and read2 hold the friends arrays the
\* handler got from getDoc, user and req its argument
Idle ==
    [op |-> "none", pc |-> "idle", ver |-> "none", user |-> "none", req |-> 0,
     read |-> {}, read2 |-> {}]

\* setError('') / setSuccess('') at the start of a handler; stC, ownA, ownC,
\* otherA, otherC record whether the write of the request status, of the
\* caller's profile and of the other profile was attempted / committed,
\* reread whether the handler read both profiles again after a failure,
\* checked whether the queries for a pending request of the pair succeeded
NoOutcome ==
    [op |-> "none", done |-> FALSE, error |-> "", success |-> "",
     user |-> "none", req |-> 0, stC |-> FALSE, ownA |-> FALSE, ownC |-> FALSE,
     otherA |-> FALSE, otherC |-> FALSE, reread |-> FALSE, checked |-> FALSE]

InitFriends ==
    /\ users = [u \in Clients |-> [friends |-> {}]]
    /\ friendRequests = <<>>
    /\ friendsState = [u \in Clients |-> {}]
    /\ receivedRequests = [u \in Clients |-> {}]
    /\ sentRequests = [u \in Clients |-> {}]
    /\ fop = [u \in Clients |-> Idle]
    /\ outcome = [u \in Clients |-> NoOutcome]
    /\ everFailed = FALSE

\* friends: arrayUnion(x) / arrayRemove(x) on users/{who}
arrayUnion(us, who, x) == [us EXCEPT ![who].friends = @ \cup {x}]

arrayRemove(us, who, x) == [us EXCEPT ![who].friends = @ \ {x}]

\* the pending requests from sender to receiver
Pending(sender, receiver) ==
    {i \in DOMAIN friendRequests :
        /\ friendRequests[i].senderId = sender
        /\ friendRequests[i].receiverId = receiver
        /\ friendRequests[i].status = "pending"}

\* the messages with which a handler reports that all it was asked for
\* has been done
FullSuccess ==
    {"Friend request sent", "You are now friends", "removed from your friends",
     "Friend request rejected", "Friend request cancelled"}

\* the handler of u ends reporting o
Finish(u, o) ==
    /\ fop' = [fop EXCEPT ![u] = Idle]
    /\ outcome' = [outcome EXCEPT ![u] = [o EXCEPT !.done = TRUE]]
    /\ everFailed' = (everFailed \/ o.error # "" \/ o.success \notin FullSuccess)

\* the handler of u goes on at pc with locals f, having recorded o
Goto(u, f, o) ==
    /\ fop' = [fop EXCEPT ![u] = f]
    /\ outcome' = [outcome EXCEPT ![u] = o]
    /\ everFailed' = (everFailed \/ o.error # "")

\* fetchFriendsAndRequests: the page loads the friends of the user's
\* profile and the pending requests the user received
FetchFriendsAndRequests(u) ==
    /\ fop[u].pc = "idle"
    /\ friendsState' = [friendsState EXCEPT ![u] = users[u].friends]
    /\ receivedRequests' = [receivedRequests EXCEPT ![u] =
          {i \in DOMAIN friendRequests :
              friendRequests[i].receiverId = u /\ friendRequests[i].status = "pending"}]
    /\ sentRequests' = [sentRequests EXCEPT ![u] =
          {i \in DOMAIN friendRequests :
              friendRequests[i].senderId = u /\ friendRequests[i].status = "pending"}]
    /\ UNCHANGED <<users, friendRequests, fop, outcome, everFailed>>
    /\ UNCHANGED nonFriendVars

\* sendFriendRequest(v), first await: getDoc of the target's profile
SendGetTarget(u, v) ==
    /\ fop[u].pc = "idle"
    /\ v # u
    /\ Len(friendRequests) < MaxRequests
    /\ LET o == [NoOutcome EXCEPT !.op = "send", !.user = v]
       IN  \E ok \in BOOLEAN :
             IF ok
             THEN Goto(u, [Idle EXCEPT !.op = "send", !.pc = "check", !.user = v], o)
             ELSE Finish(u, [o EXCEPT !.error = "Failed to send friend request"])
    /\ UNCHANGED <<users, friendRequests, friendsState, receivedRequests, sentRequests>>
    /\ UNCHANGED nonFriendVars

\* a check of the requests the caller sent only
existingRequestSentOnly(u, v) ==
    IF Pending(u, v) # {} THEN "You already sent a friend request to this user"
    ELSE ""

\* lines 599-607: the error of the duplicate check, "" if neither query
\* result has a document
existingRequest(u, v) ==
    IF Pending(u, v) # {} THEN "You already sent a friend request to this user"
    ELSE IF Pending(v, u) # {} THEN "This user already sent you a friend request"
    ELSE ""

\* sendFriendRequest: the two queries for a pending request of the pair; an
\* error of the queries is logged and the handler goes on
SendCheckExisting(u) ==
    /\ fop[u].pc = "check"
    /\ LET v == fop[u].user
           o == [outcome[u] EXCEPT !.checked = TRUE]
       IN  \E ok \in BOOLEAN :
             IF ok /\ existingRequest(u, v) # ""
             THEN Finish(u, [o EXCEPT !.error = existingRequest(u, v)])
             ELSE Goto(u, [fop[u] EXCEPT !.pc = "friends"],
                       IF ok THEN o ELSE outcome[u])
    /\ UNCHANGED <<users, friendRequests, friendsState, receivedRequests, sentRequests>>
    /\ UNCHANGED nonFriendVars

\* sendFriendRequest: getDoc of the caller's profile, already friends?
SendCheckFriends(u) ==
    /\ fop[u].pc = "friends"
    /\ \E ok \in BOOLEAN :
         IF ~ok
         THEN Finish(u, [outcome[u] EXCEPT !.error = "Failed to send friend request"])
         ELSE IF fop[u].user \in users[u].friends
         THEN Finish(u, [outcome[u] EXCEPT
                    !.error = "You are already friends with this user"])
         ELSE Goto(u, [fop[u] EXCEPT !.pc = "write"], outcome[u])
    /\ UNCHANGED <<users, friendRequests, friendsState, receivedRequests, sentRequests>>
    /\ UNCHANGED nonFriendVars

\* a new pending request document
requestData(u, v) == [senderId |-> u, receiverId |-> v, status |-> "pending"]

\* sendFriendRequest: setDoc of the new request
SendWrite(u) ==
    /\ fop[u].pc = "write"
    /\ \E ok \in BOOLEAN :
         IF ok /\ Len(friendRequests) < MaxRequests
         THEN /\ friendRequests' = Append(friendRequests, requestData(u, fop[u].user))
              /\ sentRequests' = [sentRequests EXCEPT ![u] = @ \cup {Len(friendRequests) + 1}]
              /\ Finish(u, [outcome[u] EXCEPT !.success = "Friend request sent",
                                              !.req = Len(friendRequests) + 1])
         ELSE /\ UNCHANGED <<friendRequests, sentRequests>>
              /\ Finish(u, [outcome[u] EXCEPT !.error = "Failed to send friend request"])
    /\ UNCHANGED <<users, friendsState, receivedRequests>>
    /\ UNCHANGED nonFriendVars

\* the sender of the request the handler of u works on
Sender(u) == friendRequests[fop[u].req].senderId

\* the catch of acceptFriendRequest, in both revisions
AcceptFailed(u, o) ==
    Finish(u, [o EXCEPT !.error = "Failed to accept friend request"])

\* acceptFriendRequest(r), first await, both revisions: updateDoc of the
\* request's status, whatever the status is by now
AcceptSetStatus(u, r, ver) ==
    /\ fop[u].pc = "idle"
    /\ r \in receivedRequests[u]
    /\ LET o == [NoOutcome EXCEPT !.op = "accept", !.req = r,
                                  !.user = friendRequests[r].senderId]
           f == [Idle EXCEPT !.op = "accept", !.ver = ver, !.req = r,
                             !.user = friendRequests[r].senderId]
       IN  \E ok \in BOOLEAN :
             IF ok
             THEN /\ friendRequests' = [friendRequests EXCEPT ![r].status = "accepted"]
                  /\ Goto(u, [f EXCEPT !.pc = IF ver = "pages" THEN "addOwn" ELSE "readCur"],
                          [o EXCEPT !.stC = TRUE])
             ELSE /\ UNCHANGED friendRequests
                  /\ AcceptFailed(u, o)
    /\ UNCHANGED <<users, friendsState, receivedRequests, sentRequests>>
    /\ UNCHANGED nonFriendVars

\* setFriends / setReceivedRequests / setSuccess at the end of
\* acceptFriendRequest; the hardened revision adds the sender to the local
\* list only if the profile it read did not have it
AcceptSucceeded(u, add) ==
    /\ friendsState' = [friendsState EXCEPT ![u] = IF add THEN @ \cup {Sender(u)} ELSE @]
    /\ receivedRequests' = [receivedRequests EXCEPT ![u] = @ \ {fop[u].req}]
    /\ UNCHANGED sentRequests
    /\ Finish(u, [outcome[u] EXCEPT !.success = "You are now friends",
                                    !.ownA = TRUE, !.ownC = TRUE,
                                    !.otherA = TRUE, !.otherC = TRUE])

\* acceptFriendRequest of pages/Friends.tsx: updateDoc of the caller's
\* profile with arrayUnion(sender)
AcceptUpdateOwn(u) ==
    /\ fop[u].pc = "addOwn"
    /\ \E ok \in BOOLEAN :
         IF ok
         THEN /\ users' = arrayUnion(users, u, Sender(u))
              /\ Goto(u, [fop[u] EXCEPT !.pc = "addSender"],
                      [outcome[u] EXCEPT !.ownA = TRUE, !.ownC = TRUE])
         ELSE /\ UNCHANGED users
              /\ AcceptFailed(u, [outcome[u] EXCEPT !.ownA = TRUE])
    /\ UNCHANGED <<friendRequests, friendsState, receivedRequests, sentRequests>>
    /\ UNCHANGED nonFriendVars

\* acceptFriendRequest of pages/Friends.tsx: updateDoc of the sender's
\* profile with arrayUnion(caller), then the local state and the message
AcceptUpdateSender(u) ==
    /\ fop[u].pc = "addSender"
    /\ \E ok \in BOOLEAN :
         IF ok
         THEN /\ users' = arrayUnion(users, Sender(u), u)
              /\ AcceptSucceeded(u, TRUE)
         ELSE /\ UNCHANGED <<users, friendsState, receivedRequests, sentRequests>>
              /\ AcceptFailed(u, [outcome[u] EXCEPT !.otherA = TRUE])
    /\ UNCHANGED friendRequests
    /\ UNCHANGED nonFriendVars

\* hardened acceptFriendRequest: getDoc of the caller's profile
AcceptReadCurrent(u) ==
    /\ fop[u].pc = "readCur"
    /\ \E ok \in BOOLEAN :
         IF ok
         THEN Goto(u, [fop[u] EXCEPT !.pc = "readSender", !.read = users[u].friends],
                   outcome[u])
         ELSE AcceptFailed(u, outcome[u])
    /\ UNCHANGED <<users, friendRequests, friendsState, receivedRequests, sentRequests>>
    /\ UNCHANGED nonFriendVars

\* hardened acceptFriendRequest: getDoc of the sender's profile
AcceptReadSender(u) ==
    /\ fop[u].pc = "readSender"
    /\ \E ok \in BOOLEAN :
         IF ok
         THEN Goto(u, [fop[u] EXCEPT !.pc = "batch", !.read2 = users[Sender(u)].friends],
                   outcome[u])
         ELSE AcceptFailed(u, outcome[u])
    /\ UNCHANGED <<users, friendRequests, friendsState, receivedRequests, sentRequests>>
    /\ UNCHANGED nonFriendVars

\* hardened acceptFriendRequest: the batch adds each side to the other's
\* profile unless the profile read already had it
Batch(us, u, s, currentUserFriends, senderFriends) ==
    LET us1 == IF s \notin currentUserFriends THEN arrayUnion(us, u, s) ELSE us
    IN  IF u \notin senderFriends THEN arrayUnion(us1, s, u) ELSE us1

\* hardened acceptFriendRequest: batch.commit(), then the local state and
\* the message
AcceptCommit(u) ==
    /\ fop[u].pc = "batch"
    /\ \E ok \in BOOLEAN :
         IF ok
         THEN /\ users' = Batch(users, u, Sender(u), fop[u].read, fop[u].read2)
              /\ AcceptSucceeded(u, Sender(u) \notin fop[u].read)
         ELSE /\ UNCHANGED <<users, friendsState, receivedRequests, sentRequests>>
              /\ AcceptFailed(u, [outcome[u] EXCEPT !.ownA = TRUE, !.otherA = TRUE])
    /\ UNCHANGED friendRequests
    /\ UNCHANGED nonFriendVars

\* setFriends and the message at the end of removeFriend
RemoveSucceeded(u, o, msg) ==
    /\ friendsState' = [friendsState EXCEPT ![u] = @ \ {fop[u].user}]
    /\ Finish(u, [o EXCEPT !.success = msg])

\* the catch of removeFriend of pages/Friends.tsx
RemoveFailed(u, o) == Finish(u, [o EXCEPT !.error = "Failed to remove friend"])

\* the outer catch of the hardened removeFriend: the error message, then
\* the check of both profiles
RemoveCaught(u, f, o) ==
    Goto(u, [f EXCEPT !.pc = "fixReadCur"], [o EXCEPT !.error = "Failed to remove friend"])

\* removeFriend(v) of pages/Friends.tsx, first await: updateDoc of the
\* caller's profile with arrayRemove(v)
RemoveOwnPages(u, v) ==
    /\ fop[u].pc = "idle"
    /\ v \in friendsState[u]
    /\ LET o == [NoOutcome EXCEPT !.op = "remove", !.user = v, !.ownA = TRUE]
           f == [Idle EXCEPT !.op = "remove", !.ver = "pages", !.user = v]
       IN  \E ok \in BOOLEAN :
             IF ok
             THEN /\ users' = arrayRemove(users, u, v)
                  /\ Goto(u, [f EXCEPT !.pc = "removeOther"], [o EXCEPT !.ownC = TRUE])
             ELSE /\ UNCHANGED users
                  /\ RemoveFailed(u, o)
    /\ UNCHANGED <<friendRequests, friendsState, receivedRequests, sentRequests>>
    /\ UNCHANGED nonFriendVars

\* removeFriend of pages/Friends.tsx: updateDoc of the other profile with
\* arrayRemove(caller), then the local list and the message
RemoveOtherPages(u) ==
    /\ fop[u].pc = "removeOther"
    /\ LET o == [outcome[u] EXCEPT !.otherA = TRUE]
       IN  \E ok \in BOOLEAN :
             IF ok
             THEN /\ users' = arrayRemove(users, fop[u].user, u)
                  /\ RemoveSucceeded(u, [o EXCEPT !.otherC = TRUE], "removed from your friends")
             ELSE /\ UNCHANGED <<users, friendsState>>
                  /\ RemoveFailed(u, o)
    /\ UNCHANGED <<friendRequests, receivedRequests, sentRequests>>
    /\ UNCHANGED nonFriendVars

\* hardened removeFriend(v), first await: getDoc of the other profile
RemoveGetOther(u, v) ==
    /\ fop[u].pc = "idle"
    /\ v \in friendsState[u]
    /\ LET o == [NoOutcome EXCEPT !.op = "remove", !.user = v]
           f == [Idle EXCEPT !.op = "remove", !.ver = "hardened", !.user = v]
       IN  \E ok \in BOOLEAN :
             IF ok
             THEN Goto(u, [f EXCEPT !.pc = "hRemoveOwn", !.read = users[v].friends], o)
             ELSE RemoveCaught(u, f, o)
    /\ UNCHANGED <<users, friendRequests, friendsState, receivedRequests, sentRequests>>
    /\ UNCHANGED nonFriendVars

\* hardened removeFriend: updateDoc of the caller's profile; a failure is
\* thrown to the outer catch
RemoveOwn(u) ==
    /\ fop[u].pc = "hRemoveOwn"
    /\ LET o == [outcome[u] EXCEPT !.ownA = TRUE]
       IN  \E ok \in BOOLEAN :
             IF ok
             THEN /\ users' = arrayRemove(users, u, fop[u].user)
                  /\ Goto(u, [fop[u] EXCEPT !.pc = "hRemoveOther"], [o EXCEPT !.ownC = TRUE])
             ELSE /\ UNCHANGED users
                  /\ RemoveCaught(u, fop[u], o)
    /\ UNCHANGED <<friendRequests, friendsState, receivedRequests, sentRequests>>
    /\ UNCHANGED nonFriendVars

\* hardened removeFriend: updateDoc of the other profile with
\* arrayRemove(caller); on a failure the alternative approach starts from
\* the profile read at the beginning, and needs no write if that profile
\* did not list the caller
RemoveOther(u) ==
    /\ fop[u].pc = "hRemoveOther"
    /\ LET o == [outcome[u] EXCEPT !.otherA = TRUE]
       IN  \E ok \in BOOLEAN :
             IF ok
             THEN /\ users' = arrayRemove(users, fop[u].user, u)
                  /\ RemoveSucceeded(u, [o EXCEPT !.otherC = TRUE], "removed from your friends")
             ELSE IF u \in fop[u].read
             THEN /\ UNCHANGED <<users, friendsState>>
                  /\ Goto(u, [fop[u] EXCEPT !.pc = "alternative"], o)
             ELSE /\ UNCHANGED users
                  /\ RemoveSucceeded(u, o, "removed from your friends")
    /\ UNCHANGED <<friendRequests, receivedRequests, sentRequests>>
    /\ UNCHANGED nonFriendVars

\* hardened removeFriend, alternative approach: updateDoc of the other
\* profile with the friends array read at the beginning, filtered
RemoveAlternative(u) ==
    /\ fop[u].pc = "alternative"
    /\ \E ok \in BOOLEAN :
         IF ok
         THEN /\ users' = [users EXCEPT ![fop[u].user].friends = fop[u].read \ {u}]
              /\ RemoveSucceeded(u, [outcome[u] EXCEPT !.otherC = TRUE],
                                 "removed from your friends")
         ELSE /\ UNCHANGED users
              /\ RemoveSucceeded(u, outcome[u],
                    "removed from your friends, but there was an issue updating their friends list")
    /\ UNCHANGED <<friendRequests, receivedRequests, sentRequests>>
    /\ UNCHANGED nonFriendVars

\* outer catch of the hardened removeFriend: getDoc of the caller's profile
RemoveFixReadCurrent(u) ==
    /\ fop[u].pc = "fixReadCur"
    /\ \E ok \in BOOLEAN :
         IF ok
         THEN Goto(u, [fop[u] EXCEPT !.pc = "fixReadOther", !.read = users[u].friends],
                   outcome[u])
         ELSE Finish(u, outcome[u])
    /\ UNCHANGED <<users, friendRequests, friendsState, receivedRequests, sentRequests>>
    /\ UNCHANGED nonFriendVars

\* outer catch: getDoc of the other profile; if exactly one of the two
\* profiles still lists the other, the fix removes that entry
RemoveFixReadOther(u) ==
    /\ fop[u].pc = "fixReadOther"
    /\ \E ok \in BOOLEAN :
         IF ok
         THEN LET currentUserHasFriend == fop[u].user \in fop[u].read
                  otherUserHasFriend == u \in users[fop[u].user].friends
                  o == [outcome[u] EXCEPT !.reread = TRUE]
              IN  IF currentUserHasFriend # otherUserHasFriend
                  THEN Goto(u, [fop[u] EXCEPT !.pc = "fix",
                                              !.read2 = users[fop[u].user].friends], o)
                  ELSE Finish(u, o)
         ELSE Finish(u, outcome[u])
    /\ UNCHANGED <<users, friendRequests, friendsState, receivedRequests, sentRequests>>
    /\ UNCHANGED nonFriendVars

\* outer catch: the updateDoc of the side that still lists the other, then
\* the message of the fix
RemoveFix(u) ==
    /\ fop[u].pc = "fix"
    /\ LET v == fop[u].user
           own == v \in fop[u].read
           o == IF own THEN [outcome[u] EXCEPT !.ownA = TRUE]
                       ELSE [outcome[u] EXCEPT !.otherA = TRUE]
       IN  \E ok \in BOOLEAN :
             IF ok
             THEN /\ users' = IF own THEN arrayRemove(users, u, v)
                                     ELSE arrayRemove(users, v, u)
                  /\ Finish(u, [(IF own THEN [o EXCEPT !.ownC = TRUE]
                                        ELSE [o EXCEPT !.otherC = TRUE])
                                EXCEPT !.success = "Fixed inconsistent friendship state"])
             ELSE /\ UNCHANGED users
                  /\ Finish(u, o)
    /\ UNCHANGED <<friendRequests, friendsState, receivedRequests, sentRequests>>
    /\ UNCHANGED nonFriendVars

\* a handler that marks the request accepted whatever it was asked
terminalStatusAccepted(op) == "accepted"

\* the status rejectFriendRequest / cancelFriendRequest write
terminalStatus(op) == IF op = "reject" THEN "rejected" ELSE "cancelled"

\* rejectFriendRequest(r), whole: updateDoc of the status, then the local
\* list and the message
RejectFriendRequest(u, r) ==
    /\ fop[u].pc = "idle"
    /\ r \in receivedRequests[u]
    /\ LET o == [NoOutcome EXCEPT !.op = "reject", !.req = r,
                                  !.user = friendRequests[r].senderId]
       IN  \E ok \in BOOLEAN :
             IF ok
             THEN /\ friendRequests' =
                        [friendRequests EXCEPT ![r].status = terminalStatus("reject")]
                  /\ receivedRequests' = [receivedRequests EXCEPT ![u] = @ \ {r}]
                  /\ Finish(u, [o EXCEPT !.success = "Friend request rejected", !.stC = TRUE])
             ELSE /\ UNCHANGED <<friendRequests, receivedRequests>>
                  /\ Finish(u, [o EXCEPT !.error = "Failed to reject friend request"])
    /\ UNCHANGED <<users, friendsState, sentRequests>>
    /\ UNCHANGED nonFriendVars

\* cancelFriendRequest(r), whole: updateDoc of the status, then the local
\* list and the message
CancelFriendRequest(u, r) ==
    /\ fop[u].pc = "idle"
    /\ r \in sentRequests[u]
    /\ LET o == [NoOutcome EXCEPT !.op = "cancel", !.req = r,
                                  !.user = friendRequests[r].receiverId]
       IN  \E ok \in BOOLEAN :
             IF ok
             THEN /\ friendRequests' =
                        [friendRequests EXCEPT ![r].status = terminalStatus("cancel")]
                  /\ sentRequests' = [sentRequests EXCEPT ![u] = @ \ {r}]
                  /\ Finish(u, [o EXCEPT !.success = "Friend request cancelled", !.stC = TRUE])
             ELSE /\ UNCHANGED <<friendRequests, sentRequests>>
                  /\ Finish(u, [o EXCEPT !.error = "Failed to cancel friend request"])
    /\ UNCHANGED <<users, friendsState, receivedRequests>>
    /\ UNCHANGED nonFriendVars

NextFriends ==
    \/ \E u \in Clients : FetchFriendsAndRequests(u)
    \/ \E u, v \in Clients : SendGetTarget(u, v)
    \/ \E u \in Clients : SendCheckExisting(u)
    \/ \E u \in Clients : SendCheckFriends(u)
    \/ \E u \in Clients : SendWrite(u)
    \/ \E u \in Clients, r \in RequestIds, ver \in Versions : AcceptSetStatus(u, r, ver)
    \/ \E u \in Clients : AcceptUpdateOwn(u)
    \/ \E u \in Clients : AcceptUpdateSender(u)
    \/ \E u \in Clients : AcceptReadCurrent(u)
    \/ \E u \in Clients : AcceptReadSender(u)
    \/ \E u \in Clients : AcceptCommit(u)
    \/ \E u, v \in Clients : RemoveOwnPages(u, v)
    \/ \E u \in Clients : RemoveOtherPages(u)
    \/ \E u, v \in Clients : RemoveGetOther(u, v)
    \/ \E u \in Clients : RemoveOwn(u)
    \/ \E u \in Clients : RemoveOther(u)
    \/ \E u \in Clients : RemoveAlternative(u)
    \/ \E u \in Clients : RemoveFixReadCurrent(u)
    \/ \E u \in Clients : RemoveFixReadOther(u)
    \/ \E u \in Clients : RemoveFix(u)
    \/ \E u \in Clients, r \in RequestIds : RejectFriendRequest(u, r)
    \/ \E u \in Clients, r \in RequestIds : CancelFriendRequest(u, r)

\* ------------------------------------------------------------------------
\* The invite coordinator (GameProvider, OnlineUsers, Home, GameInvite)
\* ------------------------------------------------------------------------

InviteIds == 1..MaxInvites

GameIds == 1..MaxInvites

\* the pages that run the coordinator: one tab of each user and a second
\* tab of u2, each with its own React state
Pages == Clients \cup {"u2b"}

\* currentUser.uid on a page
Uid(p) == IF p = "u2b" THEN "u2" ELSE p

InitInvites ==
    /\ gameInvites = <<>>
    /\ wordleGames = [g \in GameIds |-> "none"]
    /\ nextGameId = 1
    /\ activeGameId = [p \in Pages |-> 0]
    /\ activeInviteId = [p \in Pages |-> 0]
    /\ iev = [op |-> "none", who |-> "none", page |-> "none", ok |-> FALSE]
    /\ statusIsShitting = [u \in Clients |-> FALSE]
    /\ onlineUsers = [u \in Clients |-> FALSE]
    /\ userData = [u \in Clients |-> FALSE]

\* sendGameInvite(v): setDoc of a new pending invite; the handler checks
\* neither an existing invite of the pair nor a game in progress
SendGameInvite(u, v) ==
    /\ v # u
    /\ Len(gameInvites) < MaxInvites
    /\ \E ok \in BOOLEAN :
         /\ gameInvites' =
               IF ok
               THEN Append(gameInvites, [senderId |-> u, receiverId |-> v,
                                         status |-> "pending", gameId |-> 0])
               ELSE gameInvites
         /\ iev' = [op |-> "sendGameInvite", who |-> u, page |-> u, ok |-> ok]
    /\ UNCHANGED <<wordleGames, nextGameId, activeGameId, activeInviteId>>
    /\ UNCHANGED availVars
    /\ UNCHANGED nonInviteVars

\* the invite documents of invs with status st in which u has the role
\* (senderId or receiverId)
InvitesOf(invs, u, role, st) ==
    {i \in DOMAIN invs : invs[i][role] = u /\ invs[i].status = st}

\* docs[0] of a query result, 0 if the result is empty; the store fixes no
\* order between the documents of a result
Docs0(result) == IF result = {} THEN {0} ELSE result

\* the game of invite i of invs exists and is not completed
StillActive(invs, i) ==
    /\ i # 0
    /\ invs[i].gameId # 0
    /\ wordleGames[invs[i].gameId] = "active"

\* deleteDoc of invite i, if the scan got that far
Cleaned(invs, i) ==
    IF i # 0 /\ invs[i].gameId # 0 THEN [invs EXCEPT ![i].status = "deleted"] ELSE invs

\* fetchGameState / fetchPendingInvites / checkForActiveGames, one run: the
\* first accepted invite the user sent, then the first one the user
\* received (an active game is surfaced and ends the run, otherwise the
\* invite is deleted), then the pending invites; an error ends the run in
\* the catch (taken here at the first await)
FetchGameState(p) ==
    /\ \E ok \in BOOLEAN :
         /\ iev' = [op |-> "fetchGameState", who |-> Uid(p), page |-> p, ok |-> ok]
         /\ IF ~ok
            THEN UNCHANGED <<gameInvites, activeGameId, activeInviteId>>
            ELSE \E s \in Docs0(InvitesOf(gameInvites, Uid(p), "senderId", "accepted")) :
                   IF StillActive(gameInvites, s)
                   THEN /\ activeGameId' = [activeGameId EXCEPT ![p] = gameInvites[s].gameId]
                        /\ UNCHANGED <<gameInvites, activeInviteId>>
                   ELSE LET invs1 == Cleaned(gameInvites, s)
                        IN  \E r \in Docs0(InvitesOf(invs1, Uid(p), "receiverId", "accepted")) :
                              IF StillActive(invs1, r)
                              THEN /\ activeGameId' = [activeGameId EXCEPT ![p] = invs1[r].gameId]
                                   /\ gameInvites' = invs1
                                   /\ UNCHANGED activeInviteId
                              ELSE LET invs2 == Cleaned(invs1, r)
                                   IN  /\ gameInvites' = invs2
                                       /\ UNCHANGED activeGameId
                                       /\ \E i \in Docs0(InvitesOf(invs2, Uid(p), "receiverId", "pending")) :
                                            activeInviteId' =
                                               IF i # 0 /\ activeInviteId[p] = 0 /\ activeGameId[p] = 0
                                               THEN [activeInviteId EXCEPT ![p] = i]
                                               ELSE activeInviteId
    /\ UNCHANGED <<wordleGames, nextGameId>>
    /\ UNCHANGED availVars
    /\ UNCHANGED nonInviteVars

\* an accept that marks the invite without naming its game
acceptUpdateStatusOnly(inv, gameId) == [inv EXCEPT !.status = "accepted"]

\* the fields handleAccept gives updateDoc, merged into the invite
acceptUpdate(inv, gameId) == [inv EXCEPT !.status = "accepted", !.gameId = gameId]

\* GameInvite.handleAccept on the invite the prompt shows: a new game id,
\* updateDoc of status and gameId, then handleAcceptInvite; the handler
\* returns at once if the invite document is gone
HandleAccept(p) ==
    /\ activeInviteId[p] # 0
    /\ gameInvites[activeInviteId[p]].status # "deleted"
    /\ nextGameId <= MaxInvites
    /\ \E ok \in BOOLEAN :
         /\ iev' = [op |-> "handleAccept", who |-> Uid(p), page |-> p, ok |-> ok]
         /\ IF ok
            THEN /\ gameInvites' = [gameInvites EXCEPT
                       ![activeInviteId[p]] = acceptUpdate(@, nextGameId)]
                 /\ nextGameId' = nextGameId + 1
                 /\ activeGameId' = [activeGameId EXCEPT ![p] = nextGameId]
                 /\ activeInviteId' = [activeInviteId EXCEPT ![p] = 0]
            ELSE UNCHANGED <<gameInvites, nextGameId, activeGameId, activeInviteId>>
    /\ UNCHANGED wordleGames
    /\ UNCHANGED availVars
    /\ UNCHANGED nonInviteVars

\* GameInvite.handleReject: updateDoc of the status, then the prompt closes
HandleReject(p) ==
    /\ activeInviteId[p] # 0
    /\ gameInvites[activeInviteId[p]].status # "deleted"
    /\ \E ok \in BOOLEAN :
         /\ iev' = [op |-> "handleReject", who |-> Uid(p), page |-> p, ok |-> ok]
         /\ IF ok
            THEN /\ gameInvites' = [gameInvites EXCEPT ![activeInviteId[p]].status = "rejected"]
                 /\ activeInviteId' = [activeInviteId EXCEPT ![p] = 0]
            ELSE UNCHANGED <<gameInvites, activeInviteId>>
    /\ UNCHANGED <<wordleGames, nextGameId, activeGameId>>
    /\ UNCHANGED availVars
    /\ UNCHANGED nonInviteVars

\* the game view of u mounts on its active game: initializeGame creates the
\* game document if there is none
CreateGame(p) ==
    /\ activeGameId[p] # 0
    /\ wordleGames[activeGameId[p]] = "none"
    /\ wordleGames' = [wordleGames EXCEPT ![activeGameId[p]] = "active"]
    /\ iev' = [op |-> "initializeGame", who |-> Uid(p), page |-> p, ok |-> TRUE]
    /\ UNCHANGED <<gameInvites, nextGameId, activeGameId, activeInviteId>>
    /\ UNCHANGED availVars
    /\ UNCHANGED nonInviteVars

\* a player of the active game submits the secret word: handleSubmitGuess
\* writes status completed
CompleteGame(p) ==
    /\ activeGameId[p] # 0
    /\ wordleGames[activeGameId[p]] = "active"
    /\ wordleGames' = [wordleGames EXCEPT ![activeGameId[p]] = "completed"]
    /\ iev' = [op |-> "handleSubmitGuess", who |-> Uid(p), page |-> p, ok |-> TRUE]
    /\ UNCHANGED <<gameInvites, nextGameId, activeGameId, activeInviteId>>
    /\ UNCHANGED availVars
    /\ UNCHANGED nonInviteVars

\* the invites with game id g in which u has the role, deleted or not
\* (a deleted document is in no query result)
InvitesOfGame(u, role, g) ==
    {i \in DOMAIN gameInvites :
        /\ gameInvites[i][role] = u
        /\ gameInvites[i].gameId = g
        /\ gameInvites[i].status # "deleted"}

\* WordleGame.handleClose: deleteDoc of the invite of the game found as
\* sender, else as receiver; then handleCloseGame clears the active game,
\* also when the cleanup failed
HandleClose(p) ==
    /\ activeGameId[p] # 0
    /\ LET g == activeGameId[p]
           asSender == InvitesOfGame(Uid(p), "senderId", g)
           asReceiver == InvitesOfGame(Uid(p), "receiverId", g)
       IN  \E ok \in BOOLEAN :
             /\ iev' = [op |-> "handleClose", who |-> Uid(p), page |-> p, ok |-> ok]
             /\ IF ~ok
                THEN UNCHANGED gameInvites
                ELSE \E i \in Docs0(IF asSender # {} THEN asSender ELSE asReceiver) :
                       gameInvites' = IF i = 0 THEN gameInvites
                                      ELSE [gameInvites EXCEPT ![i].status = "deleted"]
    /\ activeGameId' = [activeGameId EXCEPT ![p] = 0]
    /\ UNCHANGED <<wordleGames, nextGameId, activeInviteId>>
    /\ UNCHANGED availVars
    /\ UNCHANGED nonInviteVars

\* updateUserStatus(b) of u has written the flag of u's presence node
SetIsShitting(u, b) ==
    /\ statusIsShitting' = [statusIsShitting EXCEPT ![u] = b]
    /\ UNCHANGED <<onlineUsers, userData>>
    /\ UNCHANGED <<gameInvites, wordleGames, nextGameId, activeGameId, activeInviteId, iev>>
    /\ UNCHANGED nonInviteVars

\* the listener on status of u's page delivers: the list of online users
\* is rebuilt from the presence store
OnlineUsersValue(u) ==
    /\ onlineUsers' = [onlineUsers EXCEPT ![u] = statusIsShitting[Opponent(u)]]
    /\ UNCHANGED <<statusIsShitting, userData>>
    /\ UNCHANGED <<gameInvites, wordleGames, nextGameId, activeGameId, activeInviteId, iev>>
    /\ UNCHANGED nonInviteVars

\* the listener on u's own presence node delivers: setUserData
UserDataValue(u) ==
    /\ userData' = [userData EXCEPT ![u] = statusIsShitting[u]]
    /\ UNCHANGED <<statusIsShitting, onlineUsers>>
    /\ UNCHANGED <<gameInvites, wordleGames, nextGameId, activeGameId, activeInviteId, iev>>
    /\ UNCHANGED nonInviteVars

\* the invite button of v on u's page is rendered
InviteButtonShown(u, v) == onlineUsers[u] /\ userData[u]

\* a click on the invite button: the only way the page calls sendGameInvite
ClickInvite(u, v) ==
    /\ InviteButtonShown(u, v)
    /\ SendGameInvite(u, v)

\* the invite button and what it reads
NextInviteButton ==
    \/ \E u \in Clients, b \in BOOLEAN : SetIsShitting(u, b)
    \/ \E u \in Clients : OnlineUsersValue(u)
    \/ \E u \in Clients : UserDataValue(u)
    \/ \E u, v \in Clients : ClickInvite(u, v)

\* the coordinator; every invite can be sent, since the flags the button
\* reads can be set by the users at any time
NextInvites ==
    \/ \E u, v \in Clients : SendGameInvite(u, v)
    \/ \E p \in Pages : FetchGameState(p)
    \/ \E p \in Pages : HandleAccept(p)
    \/ \E p \in Pages : HandleReject(p)
    \/ \E p \in Pages : CreateGame(p)
    \/ \E p \in Pages : CompleteGame(p)
    \/ \E p \in Pages : HandleClose(p)

\* ------------------------------------------------------------------------
\* The display of a guess (renderGuessResult of components/WordleGame.tsx)
\* ------------------------------------------------------------------------

ROUND == <<"R", "O", "U", "N", "D">>

\* some keys of the on-screen keyboard
Keys == {"S", "L", "U", "H", "R", "A"}

\* the guesses of five letters typed with these keys
FeedbackGuesses == [1..5 -> Keys]

\* entries of the word list with which the guesses share letters
FeedbackWords == {FLUSH, ROUND}

\* no guess on display
InitNoFeedback ==
    /\ fbWord = FLUSH
    /\ fbGuess = FLUSH
    /\ bgColor = <<>>

\* a stored guess about to be displayed against the secret word
InitFeedback ==
    /\ fbWord \in FeedbackWords
    /\ fbGuess \in FeedbackGuesses
    /\ bgColor = <<>>

\* lines 234-241: green if the letter is the word's letter at that place,
\* yellow if the word includes the letter, grey otherwise
GuessResult(word, guess) ==
    [i \in 1..Len(guess) |->
        IF word[i] = guess[i] THEN "exact"
        ELSE IF \E k \in 1..Len(word) : word[k] = guess[i] THEN "present"
        ELSE "absent"]

\* renderGuessResult(guess) on the game state's word
RenderGuessResult ==
    /\ bgColor = <<>>
    /\ bgColor' = GuessResult(fbWord, fbGuess)
    /\ UNCHANGED <<fbWord, fbGuess>>
    /\ UNCHANGED nonFeedbackVars

NextFeedback == RenderGuessResult

\* ------------------------------------------------------------------------
\* The recommendation ranking (services/friendService.ts)
\* ------------------------------------------------------------------------

\* user ids, in the order of their strings
Uids == 1..MaxUid

\* the requester
currentUserId == 1

\* the requester's friends whose documents the query may return
SampledFriends == {2, 3}

Range(seq) == {seq[i] : i \in DOMAIN seq}

\* the arrays without repetition over S of length at most n: a friends
\* array is only written by arrayUnion, arrayRemove and filter
Arrays(S, n) ==
    {a \in UNION {[1..k -> S] : k \in 0..n} :
        \A i, j \in DOMAIN a : i # j => a[i] # a[j]}

\* a set as the array that lists it in ascending order
RECURSIVE AsArray(_)
AsArray(S) ==
    IF S = {} THEN <<>>
    ELSE LET x == CHOOSE y \in S : \A z \in S : y <= z
         IN  <<x>> \o AsArray(S \ {x})

\* no call of calculateRecommendations made
InitNoRec ==
    /\ allCurrentUserFriends = <<>>
    /\ friendsOfFriends = <<>>
    /\ recommendationsArray = <<>>
    /\ recPc = "done"

\* the arguments getFriendRecommendations can pass: the requester's
\* friends, and for each friend document the query returned, in the order
\* it returned them, the friend's id and friends array
InitRec ==
    /\ \E docs \in Arrays(SampledFriends, Cardinality(SampledFriends)),
          more \in SUBSET (Uids \ ({currentUserId} \cup SampledFriends)) :
          /\ allCurrentUserFriends = AsArray(Range(docs) \cup more)
          /\ \E lists \in [DOMAIN docs -> Arrays(Uids, MaxFriends)] :
                friendsOfFriends =
                   [i \in DOMAIN docs |-> [friendId |-> docs[i], friends |-> lists[i]]]
    /\ recommendationsArray = <<>>
    /\ recPc = "input"

\* a test that lets the requester's friends through
SkipCurrentUserOnly(potentialFriend, me, currentUserFriendsSet) ==
    potentialFriend = me

\* line 89: the current user or already a friend
Skip(potentialFriend, me, currentUserFriendsSet) ==
    potentialFriend = me \/ potentialFriend \in currentUserFriendsSet

\* lines 94-97: candidatesMap.set(uid, (candidatesMap.get(uid) || 0) + 1);
\* the Map is its entries in insertion order
MapIncrement(candidatesMap, uid) ==
    IF \E i \in DOMAIN candidatesMap : candidatesMap[i].uid = uid
    THEN [i \in DOMAIN candidatesMap |->
            IF candidatesMap[i].uid = uid
            THEN [candidatesMap[i] EXCEPT !.mutualFriends = @ + 1]
            ELSE candidatesMap[i]]
    ELSE Append(candidatesMap, [uid |-> uid, mutualFriends |-> 1])

\* lines 87-98: the inner loop over one friend's friends
RECURSIVE CountFriends(_, _, _, _)
CountFriends(candidatesMap, friendsFriends, me, currentUserFriendsSet) ==
    IF friendsFriends = <<>> THEN candidatesMap
    ELSE CountFriends(
            IF Skip(Head(friendsFriends), me, currentUserFriendsSet)
            THEN candidatesMap
            ELSE MapIncrement(candidatesMap, Head(friendsFriends)),
            Tail(friendsFriends), me, currentUserFriendsSet)

\* lines 86-99: the outer loop over the entries of friendsOfFriends
RECURSIVE CountAll(_, _, _, _)
CountAll(candidatesMap, entries, me, currentUserFriendsSet) ==
    IF entries = <<>> THEN candidatesMap
    ELSE CountAll(
            CountFriends(candidatesMap, Head(entries).friends, me, currentUserFriendsSet),
            Tail(entries), me, currentUserFriendsSet)

\* an element put into an array sorted by mutualFriends descending, behind
\* the elements that do not rank below it
RECURSIVE Insert(_, _)
Insert(sorted, e) ==
    IF sorted = <<>> THEN <<e>>
    ELSE IF Head(sorted).mutualFriends >= e.mutualFriends
         THEN <<Head(sorted)>> \o Insert(Tail(sorted), e)
         ELSE <<e>> \o sorted

\* line 104: sort((a, b) => b.mutualFriends - a.mutualFriends); the sort of
\* an array is stable
RECURSIVE SortByMutualFriends(_)
SortByMutualFriends(array) ==
    IF array = <<>> THEN <<>>
    ELSE Insert(SortByMutualFriends(SubSeq(array, 1, Len(array) - 1)), array[Len(array)])

\* calculateRecommendations(currentUserId, allCurrentUserFriends, friendsOfFriends)
calculateRecommendations(me, allFriends, entries) ==
    SortByMutualFriends(CountAll(<<>>, entries, me, Range(allFriends)))

\* the call of lines 164-168
CalculateRecommendations ==
    /\ recPc = "input"
    /\ recommendationsArray' =
          calculateRecommendations(currentUserId, allCurrentUserFriends, friendsOfFriends)
    /\ recPc' = "done"
    /\ UNCHANGED <<allCurrentUserFriends, friendsOfFriends>>
    /\ UNCHANGED nonRecVars

NextRec == CalculateRecommendations

\* ------------------------------------------------------------------------
\* The recommendation cache (services/friendService.ts)
\* ------------------------------------------------------------------------

\* line 55: maxAge, one unit of the clock
maxAge == 1

\* line 112: limit
limit == 5

\* no item in localStorage; forFriends and ignored are history: the friend
\* set the item was written for and the ids dismissed since
NoCache ==
    [exists |-> FALSE, recommendations |-> <<>>, lastUpdated |-> 0, friendsHash |-> <<>>,
     forFriends |-> {}, ignored |-> {}]

NoCall == [op |-> "none", fromCache |-> FALSE, list |-> <<>>, friends |-> <<>>]

InitRecCache ==
    /\ userFriends = <<>>
    /\ recommendationsCache = NoCache
    /\ clock = 0
    /\ recServed = NoCall

\* friends.sort(): the array in ascending order
RECURSIVE Sort(_)
Sort(array) ==
    IF array = <<>> THEN <<>>
    ELSE LET i == CHOOSE k \in DOMAIN array : \A l \in DOMAIN array : array[k] <= array[l]
         IN  <<array[i]>> \o Sort([k \in 1..(Len(array) - 1) |->
                                      IF k < i THEN array[k] ELSE array[k + 1]])

\* lines 34-36: friends.sort().join('|'); the joined string is given as the
\* array of its parts, an id containing no '|'
generateFriendsHash(friends) == Sort(friends)

\* a cache check that looks at the age only
getCachedRecommendationsAnyFriends(cache, friends, currentTime) ==
    IF ~cache.exists \/ currentTime - cache.lastUpdated > maxAge
    THEN [hit |-> FALSE, recommendations |-> <<>>]
    ELSE [hit |-> TRUE, recommendations |-> cache.recommendations]

\* lines 55-74: null (no hit) without an item, with an item too old or with
\* an item of another friends hash
getCachedRecommendations(cache, friends, currentTime) ==
    IF ~cache.exists
    THEN [hit |-> FALSE, recommendations |-> <<>>]
    ELSE IF \/ currentTime - cache.lastUpdated > maxAge
            \/ cache.friendsHash # generateFriendsHash(friends)
         THEN [hit |-> FALSE, recommendations |-> <<>>]
         ELSE [hit |-> TRUE, recommendations |-> cache.recommendations]

\* lines 39-52: the item cacheRecommendations writes
cacheRecommendations(recommendations, allFriends, currentTime) ==
    [exists |-> TRUE, recommendations |-> recommendations, lastUpdated |-> currentTime,
     friendsHash |-> generateFriendsHash(allFriends),
     forFriends |-> Range(allFriends), ignored |-> {}]

\* array.slice(0, n)
Slice(array, n) == SubSeq(array, 1, IF Len(array) < n THEN Len(array) ELSE n)

\* the friends arrays of the profiles of the requester's friends
FriendsOfFriend(f) == IF f = 2 THEN <<4, 5>> ELSE <<5>>

\* lines 146-161: the documents of the sampled friends, in the order of
\* their ids (with at most two friends nothing is sampled away)
friendDocs(allFriends) ==
    LET ids == Sort(allFriends)
    IN  [i \in DOMAIN ids |-> [friendId |-> ids[i], friends |-> FriendsOfFriend(ids[i])]]

\* getFriendRecommendations(currentUserId), whole: the profile is read, the
\* cache is served if it is valid, otherwise the ranking is computed and
\* cached; a failed read throws
GetFriendRecommendations ==
    /\ \E ok \in BOOLEAN :
         IF ~ok
         THEN /\ recServed' = [NoCall EXCEPT !.op = "failed"]
              /\ UNCHANGED recommendationsCache
         ELSE LET allFriends == userFriends
                  cached == getCachedRecommendations(recommendationsCache, allFriends, clock)
              IN  IF cached.hit
                  THEN /\ recServed' = [op |-> "get", fromCache |-> TRUE,
                                        list |-> Slice(cached.recommendations, limit),
                                        friends |-> allFriends]
                       /\ UNCHANGED recommendationsCache
                  ELSE IF Len(allFriends) = 0
                  THEN /\ recServed' = [op |-> "get", fromCache |-> FALSE,
                                        list |-> <<>>, friends |-> allFriends]
                       /\ UNCHANGED recommendationsCache
                  ELSE LET final == Slice(calculateRecommendations(
                                        currentUserId, allFriends, friendDocs(allFriends)),
                                        limit)
                       IN  /\ recServed' = [op |-> "get", fromCache |-> FALSE,
                                            list |-> final, friends |-> allFriends]
                           /\ recommendationsCache' =
                                 IF final = <<>> THEN recommendationsCache
                                 ELSE cacheRecommendations(final, allFriends, clock)
    /\ UNCHANGED <<userFriends, clock>>
    /\ UNCHANGED nonRecCacheVars

\* array.filter(rec => rec.uid !== id)
RECURSIVE FilterOut(_, _)
FilterOut(array, id) ==
    IF array = <<>> THEN <<>>
    ELSE IF Head(array).uid = id THEN FilterOut(Tail(array), id)
         ELSE <<Head(array)>> \o FilterOut(Tail(array), id)

\* ignoreRecommendation(id), lines 223-238
IgnoreRecommendation(id) ==
    /\ recommendationsCache.exists
    /\ recommendationsCache' =
          [recommendationsCache EXCEPT
              !.recommendations = FilterOut(@, id),
              !.ignored = @ \cup {id}]
    /\ recServed' = [NoCall EXCEPT !.op = "ignore"]
    /\ UNCHANGED <<userFriends, clock>>
    /\ UNCHANGED nonRecCacheVars

\* the friends array of the requester's profile is rewritten by a friend
\* handler (arrayUnion appends, arrayRemove takes out)
FriendsChange(friends) ==
    /\ friends # userFriends
    /\ userFriends' = friends
    /\ recServed' = [NoCall EXCEPT !.op = "friends"]
    /\ UNCHANGED <<recommendationsCache, clock>>
    /\ UNCHANGED nonRecCacheVars

\* time passes
Tick ==
    /\ clock < MaxClock
    /\ clock' = clock + 1
    /\ recServed' = [NoCall EXCEPT !.op = "tick"]
    /\ UNCHANGED <<userFriends, recommendationsCache>>
    /\ UNCHANGED nonRecCacheVars

NextRecCache ==
    \/ GetFriendRecommendations
    \/ \E id \in Uids \ ({currentUserId} \cup SampledFriends) : IgnoreRecommendation(id)
    \/ \E friends \in Arrays(SampledFriends, Cardinality(SampledFriends)) : FriendsChange(friends)
    \/ Tick

\* ------------------------------------------------------------------------
\* The timeline cache (utils/tweetCache.ts, services/tweetService.ts, the
\* Tweets page)
\* ------------------------------------------------------------------------

\* tweetCache.ts line 20: maxAge, one unit of the clock
timelineMaxAge == 1

\* no item in localStorage; tweets n stands for the tweets 1..n; forFriends
\* is history: the friend set the item was written for
NoTimeline ==
    [exists |-> FALSE, tweets |-> 0, lastUpdated |-> 0, friendsHash |-> <<>>,
     lastLoadedActivity |-> 0, forFriends |-> {}]

NoLoad ==
    [op |-> "none", service |-> FALSE, valid |-> FALSE, cached |-> 0, tweets |-> 0,
     reads |-> 0]

InitTimeline ==
    /\ timelineFriends = <<>>
    /\ timelineCache = NoTimeline
    /\ tweetStore = 0
    /\ lastAutoRefresh = 0 - (timelineMaxAge + 1)
    /\ refreshTimer = FALSE
    /\ tlEv = NoLoad

\* tweetCache.ts lines 20-39: null (no hit) without an item, with an item
\* too old or with an item of another friends hash
getCachedTimeline(cache, friends, currentTime) ==
    /\ cache.exists
    /\ ~ \/ currentTime - cache.lastUpdated > timelineMaxAge
         \/ cache.friendsHash # generateFriendsHash(friends)

\* tweetCache.ts lines 9-17: the item cacheTimeline writes
cacheTimeline(tweets, friends, lastLoadedActivity, currentTime) ==
    [exists |-> TRUE, tweets |-> tweets, lastUpdated |-> currentTime,
     friendsHash |-> generateFriendsHash(friends),
     lastLoadedActivity |-> lastLoadedActivity, forFriends |-> Range(friends)]

\* getTimelineTweets(currentUserId, friends) without lastDoc, called by
\* loadTweets: with a valid item the activity since lastLoadedActivity is
\* read and, if there is any, the new tweets are read and merged into the
\* item; without one the activity and the tweets are read and cached; a
\* failed read throws, and loadTweets reports it
GetTimelineTweets(op) ==
    LET valid == getCachedTimeline(timelineCache, timelineFriends, clock)
        call == [NoLoad EXCEPT !.op = op, !.service = TRUE, !.valid = valid,
                               !.cached = timelineCache.tweets]
        since == IF valid THEN timelineCache.lastLoadedActivity ELSE 0
    IN  \E ok \in BOOLEAN :
          IF ~ok
          THEN /\ tlEv' = [call EXCEPT !.op = "failed", !.reads = 1]
               /\ UNCHANGED timelineCache
          ELSE IF tweetStore = since
          THEN /\ tlEv' = [call EXCEPT !.reads = 1,
                                     !.tweets = IF valid THEN timelineCache.tweets ELSE 0]
               /\ UNCHANGED timelineCache
          ELSE /\ tlEv' = [call EXCEPT !.reads = 2, !.tweets = tweetStore]
               /\ timelineCache' =
                     cacheTimeline(tweetStore, timelineFriends, tweetStore, clock)

\* loadTweets(forceRefresh) of the Tweets page: without forceRefresh a
\* valid item with tweets is shown and, if the last automatic reload is
\* more than five minutes ago, a reload is scheduled; otherwise
\* getTimelineTweets
LoadTweets(forceRefresh) ==
    /\ IF /\ ~forceRefresh
          /\ getCachedTimeline(timelineCache, timelineFriends, clock)
          /\ timelineCache.tweets > 0
       THEN /\ tlEv' = [NoLoad EXCEPT !.op = "loadTweets", !.valid = TRUE,
                                      !.cached = timelineCache.tweets,
                                      !.tweets = timelineCache.tweets]
            /\ IF clock - lastAutoRefresh > timelineMaxAge
               THEN lastAutoRefresh' = clock /\ refreshTimer' = TRUE
               ELSE UNCHANGED <<lastAutoRefresh, refreshTimer>>
            /\ UNCHANGED timelineCache
       ELSE /\ GetTimelineTweets("loadTweets")
            /\ UNCHANGED <<lastAutoRefresh, refreshTimer>>
    /\ UNCHANGED <<timelineFriends, tweetStore, clock>>
    /\ UNCHANGED nonTimelineVars

\* the timer of loadTweets fires: loadTweets(true)
BackgroundReload ==
    /\ refreshTimer
    /\ refreshTimer' = FALSE
    /\ GetTimelineTweets("reload")
    /\ UNCHANGED <<timelineFriends, tweetStore, lastAutoRefresh, clock>>
    /\ UNCHANGED nonTimelineVars

\* the effect on the page of a change of the profile's friends array:
\* loadFriends sets the state friends
LoadFriends(friends) ==
    /\ friends # timelineFriends
    /\ timelineFriends' = friends
    /\ tlEv' = [NoLoad EXCEPT !.op = "friends"]
    /\ UNCHANGED <<timelineCache, tweetStore, lastAutoRefresh, refreshTimer, clock>>
    /\ UNCHANGED nonTimelineVars

\* the user or a friend posts a tweet
PostTweet ==
    /\ tweetStore < MaxTweets
    /\ tweetStore' = tweetStore + 1
    /\ tlEv' = [NoLoad EXCEPT !.op = "post"]
    /\ UNCHANGED <<timelineFriends, timelineCache, lastAutoRefresh, refreshTimer, clock>>
    /\ UNCHANGED nonTimelineVars

\* time passes
TimelineTick ==
    /\ clock < MaxClock
    /\ clock' = clock + 1
    /\ tlEv' = [NoLoad EXCEPT !.op = "tick"]
    /\ UNCHANGED <<timelineFriends, timelineCache, tweetStore, lastAutoRefresh, refreshTimer>>
    /\ UNCHANGED nonTimelineVars

NextTimeline ==
    \/ \E forceRefresh \in BOOLEAN : LoadTweets(forceRefresh)
    \/ BackgroundReload
    \/ \E friends \in Arrays(SampledFriends, Cardinality(SampledFriends)) : LoadFriends(friends)
    \/ PostTweet
    \/ TimelineTick

\* ------------------------------------------------------------------------
\* The callbacks of one tab (contexts/AuthContext.tsx, components/OnlineUsers,
\* pages/Friends)
\* ------------------------------------------------------------------------

\* the views that start timers
Views == {"OnlineUsers", "Friends"}

NoCallback == [op |-> "none", view |-> "none", signedIn |-> FALSE, mounted |-> FALSE]

InitLifecycle ==
    /\ authUser = FALSE
    /\ statusListener = FALSE
    /\ providerUserData = FALSE
    /\ mountedViews = {}
    /\ intervalId = FALSE
    /\ pendingTimers = [v \in Views |-> 0]
    /\ cbEv = NoCallback

\* OnlineUsers, the effect of lines 175-264: it returns at once without a
\* user, otherwise it starts the interval; its cleanup clears the interval
PollerRuns(user, views) == user /\ "OnlineUsers" \in views

\* the auth-state handler with a user: userData is set and onValue is
\* registered on status/{uid}; the function onValue returns is dropped
AuthSignedIn ==
    /\ ~authUser
    /\ authUser' = TRUE
    /\ statusListener' = TRUE
    /\ providerUserData' = TRUE
    /\ intervalId' = PollerRuns(TRUE, mountedViews)
    /\ UNCHANGED <<mountedViews, pendingTimers, cbEv>>
    /\ UNCHANGED nonLifecycleVars

\* the auth-state handler without a user (lines 945-948): userData is
\* cleared; nothing detaches the status listener
AuthSignedOut ==
    /\ authUser
    /\ authUser' = FALSE
    /\ providerUserData' = FALSE
    /\ intervalId' = FALSE
    /\ UNCHANGED <<statusListener, mountedViews, pendingTimers, cbEv>>
    /\ UNCHANGED nonLifecycleVars

\* a callback of the status listener (lines 877-913): the value callback and
\* the error callback both call setUserData with the user of the closure.
\* Without a signed-in user the rule ".read": "auth != null" cancels the
\* listener, which runs the error callback once.
StatusCallback ==
    /\ statusListener
    /\ providerUserData' = TRUE
    /\ statusListener' = authUser
    /\ cbEv' = [op |-> "statusListener", view |-> "AuthProvider",
                signedIn |-> authUser, mounted |-> TRUE]
    /\ UNCHANGED <<authUser, mountedViews, intervalId, pendingTimers>>
    /\ UNCHANGED nonLifecycleVars

Mount(v) ==
    /\ v \notin mountedViews
    /\ mountedViews' = mountedViews \cup {v}
    /\ intervalId' = PollerRuns(authUser, mountedViews')
    /\ UNCHANGED <<authUser, statusListener, providerUserData, pendingTimers, cbEv>>
    /\ UNCHANGED nonLifecycleVars

\* a view unmounts: the effect cleanups run (clearInterval, line 263); no
\* cleanup holds the id of a setTimeout
Unmount(v) ==
    /\ v \in mountedViews
    /\ mountedViews' = mountedViews \ {v}
    /\ intervalId' = PollerRuns(authUser, mountedViews')
    /\ UNCHANGED <<authUser, statusListener, providerUserData, pendingTimers, cbEv>>
    /\ UNCHANGED nonLifecycleVars

\* the interval calls fetchPendingInvites
PollerTick ==
    /\ intervalId
    /\ cbEv' = [op |-> "fetchPendingInvites", view |-> "OnlineUsers",
                signedIn |-> authUser, mounted |-> "OnlineUsers" \in mountedViews]
    /\ UNCHANGED <<authUser, statusListener, providerUserData, mountedViews,
                   intervalId, pendingTimers>>
    /\ UNCHANGED nonLifecycleVars

\* a handler of view v ends with setTimeout
StartTimer(v) ==
    /\ pendingTimers[v] < MaxTimers
    /\ pendingTimers' = [pendingTimers EXCEPT ![v] = @ + 1]
    /\ UNCHANGED <<authUser, statusListener, providerUserData, mountedViews,
                   intervalId, cbEv>>
    /\ UNCHANGED nonLifecycleVars

\* OnlineUsers.sendGameInvite (lines 266-309): after the write, or after
\* its failure, the status of the button is reset 3 seconds later
SendGameInviteTimer ==
    /\ "OnlineUsers" \in mountedViews
    /\ authUser
    /\ providerUserData
    /\ StartTimer("OnlineUsers")

\* Friends.sendFriendRequest (lines 661-664): the recommendations are
\* refreshed 4 seconds after the request was written
SendFriendRequestTimer ==
    /\ "Friends" \in mountedViews
    /\ authUser
    /\ StartTimer("Friends")

\* the callback of a setTimeout runs
TimerFires(v) ==
    /\ pendingTimers[v] > 0
    /\ pendingTimers' = [pendingTimers EXCEPT ![v] = @ - 1]
    /\ cbEv' = [op |-> "timer", view |-> v,
                signedIn |-> authUser, mounted |-> v \in mountedViews]
    /\ UNCHANGED <<authUser, statusListener, providerUserData, mountedViews, intervalId>>
    /\ UNCHANGED nonLifecycleVars

NextLifecycle ==
    \/ AuthSignedIn
    \/ AuthSignedOut
    \/ StatusCallback
    \/ \E v \in Views : Mount(v)
    \/ \E v \in Views : Unmount(v)
    \/ PollerTick
    \/ SendGameInviteTimer
    \/ SendFriendRequestTimer
    \/ \E v \in Views : TimerFires(v)

\* ------------------------------------------------------------------------
\* The friends-online list (components/OnlineUsers)
\* ------------------------------------------------------------------------

\* line 114: a status older than this (300000 ms, one unit of listNow) is
\* not listed
onlineWindow == 1

NoNode ==
    [exists |-> FALSE, isOnline |-> FALSE, isShitting |-> FALSE,
     sessions |-> {}, lastActive |-> 0]

InitOnlineList ==
    /\ friendNode = NoNode
    /\ listNow = 0
    /\ friendsList = FALSE
    /\ onlineUsersList = FALSE

\* a tab of the friend attaches (AuthContext.tsx:852-874) or sets the
\* availability (784-810): the node is written with isOnline true, the
\* time of the write and the session of the tab
FriendTabWrites(t, isShitting) ==
    /\ friendNode' = [exists |-> TRUE, isOnline |-> TRUE, isShitting |-> isShitting,
                      sessions |-> friendNode.sessions \cup {t}, lastActive |-> listNow]
    /\ UNCHANGED <<listNow, friendsList, onlineUsersList>>
    /\ UNCHANGED nonOnlineListVars

\* a tab of the friend closes: the disconnect hook removes its session key
\* and nothing else
FriendTabCloses(t) ==
    /\ t \in friendNode.sessions
    /\ friendNode' = [friendNode EXCEPT !.sessions = @ \ {t}]
    /\ UNCHANGED <<listNow, friendsList, onlineUsersList>>
    /\ UNCHANGED nonOnlineListVars

\* the viewer's friends array is loaded, with or without the friend
SetFriends(b) ==
    /\ friendsList' = b
    /\ UNCHANGED <<friendNode, listNow, onlineUsersList>>
    /\ UNCHANGED nonOnlineListVars

ListTick ==
    /\ listNow < MaxTime
    /\ listNow' = listNow + 1
    /\ UNCHANGED <<friendNode, friendsList, onlineUsersList>>
    /\ UNCHANGED nonOnlineListVars

\* lines 111-116: the condition under which the listener lists the node of
\* another user
Listed(node, friends, now) ==
    /\ hasActiveSessions(node)
    /\ friends
    /\ now - node.lastActive < onlineWindow

\* the listener on the node status delivers (lines 96-123); it is called
\* for a change of any user's node, so at any time
StatusListValue ==
    /\ onlineUsersList' = Listed(friendNode, friendsList, listNow)
    /\ onlineUsersList' # onlineUsersList
    /\ UNCHANGED <<friendNode, listNow, friendsList>>
    /\ UNCHANGED nonOnlineListVars

NextOnlineList ==
    \/ \E t \in Tabs, isShitting \in BOOLEAN : FriendTabWrites(t, isShitting)
    \/ \E t \in Tabs : FriendTabCloses(t)
    \/ \E b \in BOOLEAN : SetFriends(b)
    \/ ListTick
    \/ StatusListValue

\* ------------------------------------------------------------------------
\* One browser, several accounts (services/friendService.ts)
\* ------------------------------------------------------------------------

\* the accounts that sign in in the browser, one after the other
BrowserUsers == {1, 4}

\* the friends' documents as the friends handlers keep them: the friends
\* array of friend f holds the accounts that list f, and user 5
friendsArrayOf(f, profiles) ==
    LET S == {u \in BrowserUsers : f \in Range(profiles[u])} \cup {5}
    IN  CHOOSE a \in Arrays(S, Cardinality(S)) : Range(a) = S /\ Sort(a) = a

\* lines 146-161 on these documents, in the order of their ids
friendDocsOf(allFriends, profiles) ==
    LET ids == Sort(allFriends)
    IN  [i \in DOMAIN ids |->
            [friendId |-> ids[i], friends |-> friendsArrayOf(ids[i], profiles)]]

NoBrowserCall ==
    [op |-> "none", user |-> 0, fromCache |-> FALSE, list |-> <<>>, friends |-> <<>>]

InitBrowser ==
    /\ browserUser = 1
    /\ profileFriends = [u \in BrowserUsers |-> <<>>]
    /\ browserCache = NoCache
    /\ browserNow = 0
    /\ browserServed = NoBrowserCall

\* logout and the login of another account in the same browser: the
\* localStorage item stays
SwitchAccount(u) ==
    /\ u # browserUser
    /\ browserUser' = u
    /\ browserServed' = [NoBrowserCall EXCEPT !.op = "login", !.user = u]
    /\ UNCHANGED <<profileFriends, browserCache, browserNow>>
    /\ UNCHANGED nonBrowserVars

\* getFriendRecommendations(currentUser.uid) of the account signed in,
\* lines 110-218
BrowserGetFriendRecommendations ==
    /\ \E ok \in BOOLEAN :
         IF ~ok
         THEN /\ browserServed' = [NoBrowserCall EXCEPT !.op = "failed", !.user = browserUser]
              /\ UNCHANGED browserCache
         ELSE LET allFriends == profileFriends[browserUser]
                  cached == getCachedRecommendations(browserCache, allFriends, browserNow)
                  call == [op |-> "get", user |-> browserUser, fromCache |-> FALSE,
                           list |-> <<>>, friends |-> allFriends]
              IN  IF cached.hit
                  THEN /\ browserServed' =
                             [call EXCEPT !.fromCache = TRUE,
                                          !.list = Slice(cached.recommendations, limit)]
                       /\ UNCHANGED browserCache
                  ELSE IF Len(allFriends) = 0
                  THEN /\ browserServed' = call
                       /\ UNCHANGED browserCache
                  ELSE LET final == Slice(calculateRecommendations(
                                        browserUser, allFriends,
                                        friendDocsOf(allFriends, profileFriends)),
                                        limit)
                       IN  /\ browserServed' = [call EXCEPT !.list = final]
                           /\ browserCache' =
                                 IF final = <<>> THEN browserCache
                                 ELSE cacheRecommendations(final, allFriends, browserNow)
    /\ UNCHANGED <<browserUser, profileFriends, browserNow>>
    /\ UNCHANGED nonBrowserVars

\* the friends array of the profile of account u is rewritten by a friend
\* handler
ProfileFriendsChange(u, friends) ==
    /\ friends # profileFriends[u]
    /\ profileFriends' = [profileFriends EXCEPT ![u] = friends]
    /\ browserServed' = [NoBrowserCall EXCEPT !.op = "friends", !.user = u]
    /\ UNCHANGED <<browserUser, browserCache, browserNow>>
    /\ UNCHANGED nonBrowserVars

\* time passes
BrowserTick ==
    /\ browserNow < MaxClock
    /\ browserNow' = browserNow + 1
    /\ browserServed' = [NoBrowserCall EXCEPT !.op = "tick"]
    /\ UNCHANGED <<browserUser, profileFriends, browserCache>>
    /\ UNCHANGED nonBrowserVars

NextBrowser ==
    \/ \E u \in BrowserUsers : SwitchAccount(u)
    \/ BrowserGetFriendRecommendations
    \/ \E u \in BrowserUsers,
          friends \in Arrays(SampledFriends, Cardinality(SampledFriends)) :
             ProfileFriendsChange(u, friends)
    \/ BrowserTick

\* ------------------------------------------------------------------------
\* The likes of a tweet (services/tweetService.ts)
\* ------------------------------------------------------------------------

\* the friends of the author who see the tweet
Likers == {1, 2, 3}

\* no toggleLikeTweet of the user is between its read and its write
NoSnap == [read |-> FALSE, likedBy |-> <<>>, likes |-> 0]

NoLikeStep == [op |-> "none", user |-> 0]

\* the tweet as createTweet writes it
InitLikes ==
    /\ tweet = [likedBy |-> <<>>, likes |-> 0]
    /\ tweetSnap = [u \in Likers |-> NoSnap]
    /\ likeEv = NoLikeStep

\* likedBy.filter(id => id !== userId)
RECURSIVE FilterId(_, _)
FilterId(likedBy, userId) ==
    IF likedBy = <<>> THEN <<>>
    ELSE IF Head(likedBy) = userId THEN FilterId(Tail(likedBy), userId)
         ELSE <<Head(likedBy)>> \o FilterId(Tail(likedBy), userId)

\* lines 95-103: getDoc(tweetRef) and the data read from it; a failed read
\* throws
ToggleLikeGet(u) ==
    /\ ~tweetSnap[u].read
    /\ \E ok \in BOOLEAN :
         IF ok
         THEN /\ tweetSnap' = [tweetSnap EXCEPT
                                  ![u] = [read |-> TRUE, likedBy |-> tweet.likedBy,
                                          likes |-> tweet.likes]]
              /\ likeEv' = [op |-> "get", user |-> u]
         ELSE /\ UNCHANGED tweetSnap
              /\ likeEv' = [op |-> "failed", user |-> u]
    /\ UNCHANGED tweet
    /\ UNCHANGED nonLikeVars

\* what lines 105-117 pass to updateDoc for the data read
toggledFields(tweetData, userId) ==
    IF userId \in Range(tweetData.likedBy)
    THEN [likedBy |-> FilterId(tweetData.likedBy, userId), likes |-> tweetData.likes - 1]
    ELSE [likedBy |-> Append(tweetData.likedBy, userId), likes |-> tweetData.likes + 1]

\* lines 105-117: updateDoc(tweetRef, {likedBy, likes}) replaces both fields
\* of the stored document; a failed write throws
ToggleLikeUpdate(u) ==
    /\ tweetSnap[u].read
    /\ \E ok \in BOOLEAN :
         IF ok
         THEN /\ tweet' = toggledFields(tweetSnap[u], u)
              /\ likeEv' = [op |-> "update", user |-> u]
         ELSE /\ UNCHANGED tweet
              /\ likeEv' = [op |-> "failed", user |-> u]
    /\ tweetSnap' = [tweetSnap EXCEPT ![u] = NoSnap]
    /\ UNCHANGED nonLikeVars

NextLikes ==
    \/ \E u \in Likers : ToggleLikeGet(u)
    \/ \E u \in Likers : ToggleLikeUpdate(u)

\* ------------------------------------------------------------------------
\* Specifications
\* ------------------------------------------------------------------------

\* the client with nothing being rendered or computed
InitClient ==
    /\ InitGame
    /\ InitPresence
    /\ InitFriends
    /\ InitInvites
    /\ InitNoFeedback

\* the services before any call
InitService ==
    /\ InitNoRec
    /\ InitRecCache
    /\ InitTimeline
    /\ InitLifecycle
    /\ InitOnlineList
    /\ InitBrowser
    /\ InitLikes

Init ==
    /\ InitClient
    /\ InitService

\* every input of calculateRecommendations within the bounds
InitRecommendations ==
    /\ InitClient
    /\ InitRec
    /\ InitRecCache
    /\ InitTimeline
    /\ InitLifecycle
    /\ InitOnlineList
    /\ InitBrowser
    /\ InitLikes

\* calculateRecommendations on every input within the bounds
SpecRecommendations == InitRecommendations /\ [][NextRec]_vars

\* the recommendation service and its cache in one browser
SpecRecCache == Init /\ [][NextRecCache]_vars

\* the Tweets page and the timeline cache in one browser
SpecTimeline == Init /\ [][NextTimeline]_vars

\* one tab signing in and out, its views mounting and unmounting
SpecLifecycle == Init /\ [][NextLifecycle]_vars

\* a friend's tabs writing the friend's presence node, the viewer's list
SpecOnlineList == Init /\ [][NextOnlineList]_vars

\* one browser used by two accounts
SpecBrowser == Init /\ [][NextBrowser]_vars

\* toggleLikeTweet of the friends of the author on one tweet
SpecLikes == Init /\ [][NextLikes]_vars

NextGame ==
    \/ \E c \in Clients : InitializeGameRead(c)
    \/ \E c \in Clients : InitializeGameWrite(c)
    \/ \E c \in Clients : OnSnapshot(c)
    \/ \E c \in Clients, g \in GuessInputs : PressEnter(c, g)

\* the handler called in any state of the caller, whatever the page shows
NextGameHandler ==
    \/ \E c \in Clients : InitializeGameRead(c)
    \/ \E c \in Clients : InitializeGameWrite(c)
    \/ \E c \in Clients : OnSnapshot(c)
    \/ \E c \in Clients, g \in GuessInputs : HandleSubmitGuess(c, g)


\* the game as the page drives it
SpecGame == Init /\ [][NextGame]_vars

\* the game with handleSubmitGuess called directly
SpecGameHandler == Init /\ [][NextGameHandler]_vars

\* the tabs of one identity attaching, setting availability and leaving
SpecPresence == Init /\ [][NextPresence]_vars

\* the two users' Friends pages, their handlers interleaving
SpecFriends == Init /\ [][NextFriends]_vars

\* the two users' invite coordinators, prompts and game views
SpecInvites == Init /\ [][NextInvites]_vars

\* a run of the scan that meets no error
FetchOk(p) == FetchGameState(p) /\ iev'.ok

\* the scan of every page runs on mount and then every 10 seconds
\* (setInterval), and a mounted game view runs initializeGame; a run of the
\* scan that fails is followed by later runs
FairInvites ==
    \A p \in Pages : WF_vars(FetchOk(p)) /\ WF_vars(CreateGame(p))

\* the coordinators under fair execution of the pollers and of lazy
\* initialization
SpecInvitesFair == Init /\ [][NextInvites]_vars /\ FairInvites

\* the invite button of the two users' pages
SpecInviteButton == Init /\ [][NextInviteButton]_vars

\* every guess of FeedbackGuesses displayed against every word of
\* FeedbackWords
InitRender ==
    /\ InitGame
    /\ InitPresence
    /\ InitFriends
    /\ InitInvites
    /\ InitFeedback
    /\ InitService

SpecFeedback == InitRender /\ [][NextFeedback]_vars

\* ------------------------------------------------------------------------
\* Claims about presence
\* ------------------------------------------------------------------------

\* C1: as long as a tab of the identity has a live session (it wrote its
\* session key and has neither logged out nor disconnected), the sessions
\* map of the identity is not empty and the identity is derived as online.
C1_OnlineWhileAnySession ==
    (\E t \in Tabs : live[t]) =>
        /\ status.sessions # {}
        /\ hasActiveSessions(status)

\* the removal of logout by tab t commits in this step
LogoutRemoves(t) == authPc[t] = "in" /\ authPc'[t] = "signOut"

\* tab t disconnects in this step with its disconnect hook registered
HookFires(t) == authPc[t] # "closed" /\ authPc'[t] = "closed" /\ hook[t]

\* C18: the removal done by a tab's logout, and the one done by the
\* disconnect hook the tab registered, take exactly the tab's own key out of
\* sessions: the other keys, isShitting and lastActive of the presence node
\* stay as they are and a node that exists still exists.
C18_RemovesOnlyOwnSession ==
    [][ \A t \in Tabs :
          (LogoutRemoves(t) \/ HookFires(t)) =>
              /\ status'.sessions = status.sessions \ {t}
              /\ status'.isShitting = status.isShitting
              /\ status'.lastActive = status.lastActive
              /\ status'.exists = status.exists ]_vars

\* one tab has logged out and the other has disconnected, and the node is
\* still there with its flag and its time stamp and no session left
C18_Witness ==
    /\ authPc["t1"] = "signOut"
    /\ authPc["t2"] = "closed"
    /\ status.exists
    /\ status.isShitting
    /\ status.lastActive = MaxTime
    /\ status.sessions = {}

\* the write of updateUserStatus by tab t commits in this step
UpdateWrites(t) == updPc[t] = "set" /\ updPc'[t] = "hook"

\* C19: the write of updateUserStatus leaves the set of session keys of the
\* presence node as it is, whatever the other tabs did since the call
\* started.
C19_UpdateKeepsSessions ==
    [][ \A t \in Tabs : UpdateWrites(t) => status'.sessions = status.sessions ]_vars

\* tab t has logged out or disconnected
TabGone(t) == authPc[t] \in {"signOut", "out", "closed"}

\* C36: no write of a tab puts the session key of another tab, which has
\* logged out or disconnected, back into the sessions map.
C36_NoSessionRecreated ==
    [][ \A k \in Tabs :
          ( /\ k \notin status.sessions
            /\ k \in status'.sessions
            /\ authPc'[k] = authPc[k]
            /\ updPc'[k] = updPc[k] )
          => ~TabGone(k) ]_vars

\* ------------------------------------------------------------------------
\* Claims about the friend graph
\* ------------------------------------------------------------------------

\* the handler op of user u ends in this step
Completes(u, op) ==
    /\ outcome'[u].done
    /\ outcome'[u].op = op
    /\ outcome'[u] # outcome[u]

\* C4: when acceptFriendRequest(r) ends reporting success, the receiver of
\* r is in the friends of the sender's profile and the sender of r is in
\* the friends of the receiver's profile.
C4_AcceptSuccessBothSides ==
    [][ \A u \in Clients :
          (Completes(u, "accept") /\ outcome'[u].success = "You are now friends") =>
              LET r == friendRequests'[outcome'[u].req]
              IN  /\ r.receiverId \in users'[r.senderId].friends
                  /\ r.senderId \in users'[r.receiverId].friends ]_vars

\* the request was marked accepted and not both profiles were updated
PartiallyApplied(o) == o.stC /\ ~(o.ownC /\ o.otherC)

\* C6: when acceptFriendRequest ends having applied only part of its effect
\* (the request marked accepted without both profiles updated), it has read
\* both profiles again, it does not report full success, and either both
\* profiles list each other by then (repaired) or its report is distinct
\* from the report of a plain failure.
C6_PartialAcceptDetected ==
    [][ \A u \in Clients :
          (Completes(u, "accept") /\ PartiallyApplied(outcome'[u])) =>
              /\ outcome'[u].reread
              /\ outcome'[u].success # "You are now friends"
              /\ \/ /\ u \in users'[outcome'[u].user].friends
                    /\ outcome'[u].user \in users'[u].friends
                 \/ outcome'[u].error # "Failed to accept friend request" ]_vars

\* C7: removeFriend attempts the update of the other side when the update
\* of one side failed, and when exactly one of the two updates committed it
\* ends with a success report that is not the report of a full removal.
C7_RemoveBothSidesIndependently ==
    [][ \A u \in Clients :
          Completes(u, "remove") =>
              LET o == outcome'[u]
              IN  /\ (o.ownA /\ ~o.ownC) => o.otherA
                  /\ (o.otherA /\ ~o.otherC) => o.ownA
                  /\ (o.ownC # o.otherC) =>
                        o.success \notin {"", "removed from your friends"} ]_vars

\* the step is the one of u's friend handler at pc
StepAt(u, pc) == fop[u].pc = pc /\ fop'[u] # fop[u]

\* u's handler ends in this step with this error and creates no request
FailsWith(u, msgs) ==
    /\ outcome'[u].done
    /\ outcome'[u].error \in msgs
    /\ outcome'[u].success = ""
    /\ friendRequests' = friendRequests

DuplicateRequest ==
    {"You already sent a friend request to this user",
     "This user already sent you a friend request"}

\* what sendFriendRequest does after its duplicate check: already friends
\* (or a rejected read) ends it with an error and no request; otherwise the
\* setDoc either creates the one pending request of the caller to the
\* target or is rejected, with an error and no request
SendAfterCheck(u) ==
    /\ (StepAt(u, "friends") /\ fop[u].user \in users[u].friends) =>
          FailsWith(u, {"You are already friends with this user",
                        "Failed to send friend request"})
    /\ (StepAt(u, "friends") /\ ~outcome'[u].done) =>
          /\ fop[u].user \notin users[u].friends
          /\ friendRequests' = friendRequests
    /\ StepAt(u, "write") =>
          \/ /\ friendRequests' = Append(friendRequests, requestData(u, fop[u].user))
             /\ outcome'[u].done
             /\ outcome'[u].success = "Friend request sent"
             /\ outcome'[u].error = ""
          \/ FailsWith(u, {"Failed to send friend request"})

C16_OnePendingPerPair ==
    \A u, v \in Clients : Cardinality(Pending(u, v) \cup Pending(v, u)) <= 1

Quiescent == \A u \in Clients : fop[u].pc = "idle"

\* the friends sets of the profiles list each other
Symmetric ==
    \A a, b \in Clients : (b \in users[a].friends) <=> (a \in users[b].friends)

\* C34: whenever no friend handler is in flight and every handler so far
\* has reported full success, the friends sets of the profiles are
\* symmetric.
C34_QuiescentSymmetric ==
    (Quiescent /\ ~everFailed) => Symmetric

\* C35: when acceptFriendRequest ends reporting a failure, the request is
\* still pending and the handler has committed no write to either profile,
\* so the request can be accepted again.
C35_FailedAcceptLeavesPending ==
    [][ \A u \in Clients :
          (Completes(u, "accept") /\ outcome'[u].error # "") =>
              /\ friendRequests'[outcome'[u].req].status = "pending"
              /\ ~outcome'[u].stC
              /\ ~outcome'[u].ownC
              /\ ~outcome'[u].otherC ]_vars

\* ------------------------------------------------------------------------
\* Claims about the invite coordinator
\* ------------------------------------------------------------------------

\* C5: an invite with status accepted whose game is completed no longer
\* exists after one run, without error, of the scan of its sender or of
\* its receiver.
C5_StaleInviteDeletedByScan ==
    [][ \A u \in Clients :
          (iev'.op = "fetchGameState" /\ iev'.who = u /\ iev'.ok) =>
              \A i \in DOMAIN gameInvites :
                  ( /\ gameInvites[i].status = "accepted"
                    /\ u \in {gameInvites[i].senderId, gameInvites[i].receiverId}
                    /\ gameInvites[i].gameId # 0
                    /\ wordleGames[gameInvites[i].gameId] = "completed" )
                  => gameInvites'[i].status = "deleted" ]_vars

\* C20: whenever a pending invite is created, its sender and its receiver
\* are both marked available (isShitting) in the presence store at the time
\* of the write.
C20_InviteOnlyWhenBothAvailable ==
    [][ Len(gameInvites') > Len(gameInvites) =>
          LET new == gameInvites'[Len(gameInvites')]
          IN  /\ new.status = "pending"
              /\ statusIsShitting[new.senderId]
              /\ statusIsShitting[new.receiverId] ]_vars

\* the prompt of page p accepts its invite in this step and the write
\* commits
Accepts(p) ==
    /\ iev'.op = "handleAccept"
    /\ iev'.page = p
    /\ iev'.ok
    /\ activeInviteId[p] # 0
    /\ activeInviteId'[p] = 0

\* the game ids in use: named by an invite or by a game document
UsedGameIds ==
    {gameInvites[i].gameId : i \in DOMAIN gameInvites}
        \cup {g \in GameIds : wordleGames[g] # "none"}

\* C21: handleAccept, when its write commits, leaves the invite accepted
\* with a game id that no invite and no game document had before, and
\* changes no other invite; committed or not, it creates and changes no
\* game document, so the game of the new id does not exist yet.
C21_AcceptCreatesNoGame ==
    [][ /\ iev'.op = "handleAccept" => wordleGames' = wordleGames
        /\ \A p \in Pages :
             Accepts(p) =>
                 LET i == activeInviteId[p]
                 IN  /\ gameInvites'[i].status = "accepted"
                     /\ gameInvites'[i].gameId \in GameIds \ UsedGameIds
                     /\ wordleGames'[gameInvites'[i].gameId] = "none"
                     /\ \A j \in DOMAIN gameInvites :
                           j # i => gameInvites'[j] = gameInvites[j] ]_vars

\* the second invite has just been accepted while the game of the first
\* one exists
C21_Witness ==
    /\ iev.op = "handleAccept"
    /\ iev.ok
    /\ Len(gameInvites) = 2
    /\ gameInvites[2].status = "accepted"
    /\ gameInvites[2].gameId = 2
    /\ wordleGames[1] # "none"
    /\ wordleGames[2] = "none"

\* the statuses after which an invite is settled
TerminalInviteStatuses == {"accepted", "rejected", "cancelled"}

\* C28: a step of handleAccept or handleReject changes neither the status
\* nor the gameId of an invite that is already accepted, rejected or
\* cancelled.
C28_TerminalInviteStatus ==
    [][ iev'.op \in {"handleAccept", "handleReject"} =>
          \A i \in DOMAIN gameInvites :
              gameInvites[i].status \in TerminalInviteStatuses =>
                  /\ gameInvites'[i].status = gameInvites[i].status
                  /\ gameInvites'[i].gameId = gameInvites[i].gameId ]_vars

\* C30: an invite that a run of the scan deletes was accepted and names a
\* game whose document exists with status completed; an accepted invite
\* whose game is active or has no document yet survives every scan.
C30_ScanDeletesOnlyCompleted ==
    [][ iev'.op = "fetchGameState" =>
          \A i \in DOMAIN gameInvites :
              (gameInvites[i].status # "deleted" /\ gameInvites'[i].status = "deleted") =>
                  /\ gameInvites[i].status = "accepted"
                  /\ gameInvites[i].gameId # 0
                  /\ wordleGames[gameInvites[i].gameId] = "completed" ]_vars

\* game g is the active game of a page of u
SurfacedTo(u, g) == \E p \in Pages : Uid(p) = u /\ activeGameId[p] = g

\* C31: under fair execution of the pollers and of lazy initialization, in
\* a run in which no party closes a game, an invite accepted with game id
\* g leads to a state in which g is the active game of its sender and of
\* its receiver, or the game is completed first.
C31_AcceptedGameSurfaced ==
    [](iev.op # "handleClose") =>
        \A i \in InviteIds, g \in GameIds :
            ( /\ i \in DOMAIN gameInvites
              /\ gameInvites[i].status = "accepted"
              /\ gameInvites[i].gameId = g )
            ~> ( \/ ( /\ i \in DOMAIN gameInvites
                      /\ SurfacedTo(gameInvites[i].senderId, g)
                      /\ SurfacedTo(gameInvites[i].receiverId, g) )
                 \/ wordleGames[g] = "completed" )

\* page p closes its game in this step: its game-active state is cleared
Closes(p) ==
    /\ iev'.op = "handleClose"
    /\ iev'.page = p
    /\ activeGameId[p] # 0
    /\ activeGameId'[p] = 0

\* C22: when a page's game-active state is cleared by closing the game, no
\* invite of the game is left in which the page's user is the sender or
\* the receiver: the deletion has been done by then.
C22_InviteDeletedBeforeClear ==
    [][ \A p \in Pages :
          Closes(p) =>
              \A i \in DOMAIN gameInvites :
                  ( /\ gameInvites[i].gameId = activeGameId[p]
                    /\ Uid(p) \in {gameInvites[i].senderId, gameInvites[i].receiverId} )
                  => gameInvites'[i].status = "deleted" ]_vars

\* ------------------------------------------------------------------------
\* Claims about the word game
\* ------------------------------------------------------------------------

\* C2: two concurrent initializeGame calls for one game id persist exactly
\* one secret word; the call that writes second never replaces the word,
\* the players or currentPlayer of the document already stored.
C2_OneSecretPersisted ==
    [][ /\ Cardinality(persisted') <= 1
        /\ (game.exists /\ ev'.op = "initWrite") =>
              /\ game'.word = game.word
              /\ game'.player1 = game.player1
              /\ game'.player2 = game.player2
              /\ game'.currentPlayer = game.currentPlayer ]_vars

\* C3: every accepted guess is made by the player whose turn the document
\* records and hands the turn to the other player (so no player has two
\* accepted guesses in a row), and currentPlayer never changes once the
\* status is completed.
C3_TurnsAlternate ==
    [][ /\ (ev'.op = "submit" /\ ev'.res = "accepted") =>
              /\ ev'.who = game.currentPlayer
              /\ game'.currentPlayer \in {game.player1, game.player2} \ {game.currentPlayer}
        /\ game.status = "completed" => game'.currentPlayer = game.currentPlayer ]_vars

C10_NoChangeAfterCompletion ==
    [][ (game.status = "completed" /\ ev'.op = "submit") => game' = game ]_vars

\* C11: the status of the game document becomes completed only from
\* active and only by a submitted guess equal to the secret word the
\* document stores, and once completed it stays completed (so the
\* transition happens once), whatever initializeGame calls are in flight.
C11_CompletedOnceByCorrectGuess ==
    [][ /\ game.status = "completed" => game'.status = "completed"
        /\ (game.status # "completed" /\ game'.status = "completed") =>
              /\ game.status = "active"
              /\ ev'.op = "submit"
              /\ ev'.arg = game.word ]_vars

\* C12: the currentPlayer of the stored game document is its player1 or
\* its player2.
C12_CurrentPlayerIsAPlayer ==
    game.exists => game.currentPlayer \in {game.player1, game.player2}

\* a guess was accepted from a client whose game state was not the stored
\* document, after both clients had created the game
C12_Witness ==
    /\ ev.op = "submit"
    /\ ev.res = "accepted"
    /\ ~ev.fresh
    /\ gameState[ev.who].player1 # game.player1

\* C27: in every state of a client's game view the secret word is printed
\* only when the view's game state is completed, a view of an active game
\* is the board of coloured guesses without the word, and a view of a
\* completed game prints the word, for either player.
C27_WordShownOnlyWhenCompleted ==
    \A c \in Clients :
        /\ WordShown(c) => gameState[c].status = "completed"
        /\ (gameState[c].exists /\ gameState[c].status = "active")
              => (BoardShown(c) /\ ~WordShown(c))
        /\ (gameState[c].exists /\ gameState[c].status = "completed")
              => WordShown(c)

\* the stored game is completed and both players' views print its word
C27_Witness ==
    /\ game.exists
    /\ game.status = "completed"
    /\ \A c \in Clients : WordShown(c) /\ gameState[c].word = game.word

\* the guess list the stored document keeps for identity c
GuessesOf(d, c) ==
    IF c = d.player1 THEN d.player1Guesses
    ELSE IF c = d.player2 THEN d.player2Guesses
    ELSE <<>>

\* C33: a stored game document with status completed names one of its two
\* players as winner, and its stored word is among the guesses the document
\* keeps for that winner.
C33_WinnerGuessedStoredWord ==
    (game.exists /\ game.status = "completed") =>
        /\ game.winner \in {game.player1, game.player2}
        /\ game.word \in Range(GuessesOf(game, game.winner))

\* list a is list b or a beginning of it
IsPrefixOf(a, b) == Len(a) <= Len(b) /\ \A k \in 1..Len(a) : a[k] = b[k]

\* C39: in every step the guess lists of the stored game document only
\* grow at their end, and a guess lands in the list of the player the
\* stored document names for the identity that submitted it.
C39_GuessListsAppendOnly ==
    [][ game.exists =>
          /\ game'.exists
          /\ IsPrefixOf(game.player1Guesses, game'.player1Guesses)
          /\ IsPrefixOf(game.player2Guesses, game'.player2Guesses)
          /\ (game'.player1Guesses # game.player1Guesses) =>
                (ev'.op = "submit" /\ ev'.who = game'.player1)
          /\ (game'.player2Guesses # game.player2Guesses) =>
                (ev'.op = "submit" /\ ev'.who = game'.player2) ]_vars

\* ------------------------------------------------------------------------
\* Claims about the display of a guess
\* ------------------------------------------------------------------------

\* the places where guess and word agree
ExactAt(word, guess) == {i \in 1..Len(guess) : word[i] = guess[i]}

\* the classic classification: the places that agree are exact and use up
\* their letter of the word; going left to right, another letter of the
\* guess is present while an occurrence of it in the word is still unused
Classic(word, guess) ==
    [i \in 1..Len(guess) |->
        IF i \in ExactAt(word, guess) THEN "exact"
        ELSE LET unused == {k \in 1..Len(word) :
                               k \notin ExactAt(word, guess) /\ word[k] = guess[i]}
                 before == {j \in 1..(i - 1) :
                               j \notin ExactAt(word, guess) /\ guess[j] = guess[i]}
             IN  IF Cardinality(before) < Cardinality(unused) THEN "present" ELSE "absent"]

\* C13: the classes displayed for a guess are those of the classic
\* classification with duplicate-letter accounting (word ROUND, guess
\* RURAL: exact, present, absent, absent, absent).
C13_FeedbackIsClassic ==
    bgColor # <<>> => bgColor = Classic(fbWord, fbGuess)

\* C14: for the word FLUSH and the guess SLUSH the classes displayed are
\* absent, absent, exact, exact, exact.
C14_FlushSlush ==
    (bgColor # <<>> /\ fbWord = FLUSH /\ fbGuess = <<"S", "L", "U", "S", "H">>) =>
        bgColor = <<"absent", "absent", "exact", "exact", "exact">>

\* ------------------------------------------------------------------------
\* Claims about the recommendation ranking
\* ------------------------------------------------------------------------

\* the friend documents whose friends array contains c
Through(c) == {i \in DOMAIN friendsOfFriends : c \in Range(friendsOfFriends[i].friends)}

\* who can be reached through a friend document and is neither the
\* requester nor one of the requester's friends
Candidates ==
    {c \in Uids : Through(c) # {}} \ ({currentUserId} \cup Range(allCurrentUserFriends))

\* C23: calculateRecommendations returns every candidate once, with the
\* number of friend documents whose friends array contains it as its score,
\* returns neither the requester nor a friend of the requester, and returns
\* the candidates by descending score.
C23_ScoresAndOrder ==
    recPc = "done" =>
        LET out == recommendationsArray
        IN  /\ {out[i].uid : i \in DOMAIN out} = Candidates
            /\ Len(out) = Cardinality(Candidates)
            /\ \A i \in DOMAIN out :
                  out[i].mutualFriends = Cardinality(Through(out[i].uid))
            /\ \A i, j \in DOMAIN out :
                  i < j => out[i].mutualFriends >= out[j].mutualFriends

\* a ranking of two candidates with scores 2 and 1 has been computed from
\* two friend documents that also name the requester or a friend, the
\* candidate met first not being the one ranked first
C23_Witness ==
    /\ recPc = "done"
    /\ Len(friendsOfFriends) = 2
    /\ Len(recommendationsArray) = 2
    /\ recommendationsArray[1].mutualFriends = 2
    /\ recommendationsArray[2].mutualFriends = 1
    /\ \E i \in DOMAIN friendsOfFriends :
          Range(friendsOfFriends[i].friends)
             \cap (Range(allCurrentUserFriends) \cup {currentUserId}) # {}
    /\ Len(friendsOfFriends[1].friends) > 0
    /\ friendsOfFriends[1].friends[1] = recommendationsArray[2].uid

\* the friend documents in another order
Reordered ==
    {[i \in DOMAIN friendsOfFriends |-> friendsOfFriends[p[i]]] :
        p \in {q \in [DOMAIN friendsOfFriends -> DOMAIN friendsOfFriends] :
                  \A i, j \in DOMAIN q : i # j => q[i] # q[j]}}

\* C24: the ranking does not depend on the order the friend documents came
\* in, and candidates with equal scores are ranked by ascending id.
C24_RankingDeterministic ==
    recPc = "done" =>
        /\ \A entries \in Reordered :
              calculateRecommendations(currentUserId, allCurrentUserFriends, entries)
                 = recommendationsArray
        /\ \A i, j \in DOMAIN recommendationsArray :
              ( /\ i < j
                /\ recommendationsArray[i].mutualFriends = recommendationsArray[j].mutualFriends )
              => recommendationsArray[i].uid < recommendationsArray[j].uid

\* ------------------------------------------------------------------------
\* Claims about the caches
\* ------------------------------------------------------------------------

\* the service serves the cached list in this step
ServesCache == recServed'.op = "get" /\ recServed'.fromCache

\* C25: when getFriendRecommendations serves the cached list, the cache was
\* written for the friend set the profile has clock, in whatever order the
\* array lists it, and no more than maxAge ago, and the list served holds no
\* id dismissed by ignoreRecommendation since the cache was written.
C25_CacheServedOnlyWhenValid ==
    [][ ServesCache =>
          /\ recommendationsCache.exists
          /\ recommendationsCache.forFriends = Range(userFriends)
          /\ clock - recommendationsCache.lastUpdated <= maxAge
          /\ \A i \in DOMAIN recServed'.list :
                recServed'.list[i].uid \notin recommendationsCache.ignored ]_vars

\* the cache has been served for the friends array in an order its hash
\* was not computed from, one tick after it was written, after an id was
\* dismissed and with an id left
C25_Witness ==
    /\ recServed.op = "get"
    /\ recServed.fromCache
    /\ recServed.friends = <<3, 2>>
    /\ recommendationsCache.ignored # {}
    /\ recServed.list # <<>>
    /\ clock = recommendationsCache.lastUpdated + 1

\* C26: a run of getTimelineTweets that finds a cache item written for the
\* same friend set within the freshness window returns the cached tweets
\* without a backend read, and a run that finds no such item reads the
\* backend.
C26_TimelineCacheNoRead ==
    [][ (tlEv'.service /\ tlEv' # tlEv) =>
          /\ tlEv'.valid => (tlEv'.reads = 0 /\ tlEv'.tweets = tlEv'.cached)
          /\ ~tlEv'.valid => tlEv'.reads > 0 ]_vars

\* ------------------------------------------------------------------------
\* Claims about the callbacks of a tab
\* ------------------------------------------------------------------------

\* C29: no callback is left to run for a signed-out user or an unmounted
\* view: without a user the status listener is detached and the invite
\* poller is stopped, a view that is not mounted has no pending timer and
\* no running poller, and the last callback that ran found its user signed
\* in and its view mounted.
C29_NoCallbackAfterUnmount ==
    /\ ~authUser => (~statusListener /\ ~intervalId)
    /\ "OnlineUsers" \notin mountedViews => ~intervalId
    /\ \A v \in Views : v \notin mountedViews => pendingTimers[v] = 0
    /\ cbEv.op # "none" => (cbEv.signedIn /\ cbEv.mounted)

\* ------------------------------------------------------------------------
\* Claims about the friends-online list
\* ------------------------------------------------------------------------

\* C32: the list the status listener has just built holds the friend
\* exactly when the friend's sessions map in the presence store is not
\* empty, whatever the other fields of the node are.
C32_OnlineBySessionsOnly ==
    [][ (onlineUsersList' # onlineUsersList /\ friendsList) =>
          (onlineUsersList' <=> hasActiveSessions(friendNode)) ]_vars

\* ------------------------------------------------------------------------
\* Claims about a browser used by several accounts
\* ------------------------------------------------------------------------

\* C37: the list the last call of getFriendRecommendations returned, fresh
\* or from the cache, holds neither the account it was called for nor an id
\* of the friends array that account had at the call, whichever account
\* wrote the cache item of the browser.
C37_NoSelfNoFriendRecommended ==
    browserServed.op = "get" =>
        \A i \in DOMAIN browserServed.list :
            /\ browserServed.list[i].uid # browserServed.user
            /\ browserServed.list[i].uid \notin Range(browserServed.friends)

\* ------------------------------------------------------------------------
\* Claims about the likes of a tweet
\* ------------------------------------------------------------------------

\* the user's id is in the array
Likes(u, doc) == u \in Range(doc.likedBy)

\* C38: the write of toggleLikeTweet(t, u) flips the membership of u in the
\* stored likedBy, leaves the membership of every other user as it is, and
\* moves likes by one in the direction of the flip, whatever other toggles
\* ran between its read and its write.
C38_ToggleFlipsOnlyOwnLike ==
    [][ \A u \in Likers :
          (likeEv'.op = "update" /\ likeEv'.user = u) =>
              /\ \A v \in Likers \ {u} : Likes(v, tweet') <=> Likes(v, tweet)
              /\ Likes(u, tweet') <=> ~Likes(u, tweet)
              /\ tweet'.likes = tweet.likes + (IF Likes(u, tweet') THEN 1 ELSE -1) ]_vars

====
